---- MODULE Spec2Model ----
(***************************************************************************)
(* A model of the intent-to-state mutation pipeline of mzhub-react:        *)
(* the useSemanticState hook (hooks/useSemanticState.ts), the self-        *)
(* correction loop (validation/selfCorrection.ts), the schema validator    *)
(* (validation/schemaValidator.ts) and the lifecycle state machine         *)
(* (utils/stateMachine.ts).                                                *)
(*                                                                         *)
(* Texts (model responses, serialized states) are sequences of one-        *)
(* character strings.  The typed state T of the modelled hook instance is  *)
(* an array of single-digit numbers (schema z.array(z.number())).          *)
(***************************************************************************)
EXTENDS Integers, Sequences, FiniteSets, TLC

\* ------------------------------------------------------------------------
\* Bounds of the model
\* ------------------------------------------------------------------------
\* number of dispatch() invocations in one behaviour
MaxDispatches == 2
\* largest configured retry ceiling (config.maxRetries ranges over 0..bound)
MaxRetriesBound == 2
\* largest configured snapshot ceiling (maxSnapshots ranges over 0..bound)
MaxSnapshotsBound == 3
\* number of distinct ids snapshot() can generate
MaxSnapshotIds == 3

\* maxRequests of a rate limiter ranges over 1..MaxRequestsBound, its
\* windowMs over 1..MaxWindowMs, and Date.now() over 0..MaxTime
MaxRequestsBound == 2
MaxWindowMs == 2
MaxTime == 4

\* ------------------------------------------------------------------------
\* Program constants
\* ------------------------------------------------------------------------
\* DEFAULT_CONFIG.confidenceThreshold (0.7), in thousandths
ConfidenceThreshold == 700
\* calculateConfidence: modelConfidence default (0.7), in hundredths
ModelConfidence == 70
\* calculateConfidence: intent length that counts as fully clear
IntentClarityLen == 50
\* isDestructiveChange: minimum serialized size of the previous state
DestructiveMinSize == 50
\* isDestructiveChange: size ratio (0.3), in tenths
DestructiveRatio == 3
\* buildCorrectionPrompt: characters of the invalid response that are kept
CorrectionSliceLen == 500
\* validateResponse: characters of the response kept in `received`
ReceivedSliceLen == 100
\* RollbackManager: maxSnapshots when the configuration gives none
DefaultMaxSnapshots == 10
\* DEFAULT_CONFIG.maxRetries of the Synapse context
DefaultMaxRetries == 3

\* README, Rate Limiting: `maxRequests: 100, windowMs: 60000`
ExampleMaxRequests == 100
ExampleWindowMs == 60000

\* ------------------------------------------------------------------------
\* JSON values and texts
\* ------------------------------------------------------------------------
Min2(a, b) == IF a < b THEN a ELSE b
Max2(a, b) == IF a > b THEN a ELSE b

\* JavaScript values that occur as state or as parsed model output
Arr(s) == [kind |-> "array", items |-> s]
Obj(s) == [kind |-> "object", items |-> s]
Null == [kind |-> "null", items |-> <<>>]

DigitChar == <<"0", "1", "2", "3", "4", "5", "6", "7", "8", "9">>
IsDigit(c) == \E n \in 1..10 : DigitChar[n] = c
DigitVal(c) == (CHOOSE n \in 1..10 : DigitChar[n] = c) - 1

RECURSIVE JoinItems(_)
JoinItems(s) ==
  IF Len(s) = 0 THEN <<>>
  ELSE IF Len(s) = 1 THEN <<DigitChar[s[1] + 1]>>
  ELSE <<DigitChar[s[1] + 1], ",">> \o JoinItems(Tail(s))

ItemsKey == <<"{", "\"", "i", "t", "e", "m", "s", "\"", ":">>

\* An object {id, text, done} of a to-do list; id and text are character
\* sequences, done is "true", "false" or "missing" (the field is absent).
Todo(id, text, done) == [id |-> id, text |-> text, done |-> done]

\* the object {items: [...]} over a non-empty list of such objects
Todos(s) == [kind |-> "todos", items |-> s]

IdKey == <<"{", "\"", "i", "d", "\"", ":", "\"">>
TextKey == <<"\"", ",", "\"", "t", "e", "x", "t", "\"", ":", "\"">>
DoneKey == <<",", "\"", "d", "o", "n", "e", "\"", ":">>
Quote == "\""

BoolText(done) ==
  IF done = "true" THEN <<"t", "r", "u", "e">>
  ELSE <<"f", "a", "l", "s", "e">>

\* JSON.stringify of one to-do object
TodoText(t) ==
  IdKey \o t.id \o TextKey \o t.text \o <<Quote>>
    \o (IF t.done = "missing" THEN <<>> ELSE DoneKey \o BoolText(t.done))
    \o <<"}">>

RECURSIVE JoinTodos(_)
JoinTodos(s) ==
  IF Len(s) = 0 THEN <<>>
  ELSE IF Len(s) = 1 THEN TodoText(s[1])
  ELSE TodoText(s[1]) \o <<",">> \o JoinTodos(Tail(s))

\* JSON.stringify(value) as a character sequence
Stringify(v) ==
  CASE v.kind = "null" -> <<"n", "u", "l", "l">>
    [] v.kind = "array" -> <<"[">> \o JoinItems(v.items) \o <<"]">>
    [] v.kind = "object" ->
         ItemsKey \o <<"[">> \o JoinItems(v.items) \o <<"]">> \o <<"}">>
    [] v.kind = "todos" ->
         ItemsKey \o <<"[">> \o JoinTodos(v.items) \o <<"]">> \o <<"}">>

\* text of a compact array of single-digit numbers
IsArrayText(t) ==
  /\ Len(t) >= 2
  /\ t[1] = "["
  /\ t[Len(t)] = "]"
  /\ \/ Len(t) = 2
     \/ /\ Len(t) % 2 = 1
        /\ \A i \in 2..(Len(t) - 1) :
             IF i % 2 = 0 THEN IsDigit(t[i]) ELSE t[i] = ","

ArrayItems(t) == [k \in 1..((Len(t) - 1) \div 2) |-> DigitVal(t[2 * k])]

IsObjectText(t) ==
  /\ Len(t) >= Len(ItemsKey) + 3
  /\ SubSeq(t, 1, Len(ItemsKey)) = ItemsKey
  /\ t[Len(t)] = "}"
  /\ IsArrayText(SubSeq(t, Len(ItemsKey) + 1, Len(t) - 1))

\* the text before the id of the first to-do object of {items: [...]}
TodosPrefix == ItemsKey \o <<"[">> \o IdKey

\* the texts that may follow the text of a single to-do object
TodoEndings ==
  [missing |-> <<Quote, "}", "]", "}">>,
   true |-> <<Quote>> \o DoneKey \o BoolText("true") \o <<"}", "]", "}">>,
   false |-> <<Quote>> \o DoneKey \o BoolText("false") \o <<"}", "]", "}">>]

\* the place of the first quote of t at or after j (0 when there is none)
QuoteAfter(t, j) ==
  IF \E k \in j..Len(t) : t[k] = Quote
  THEN CHOOSE k \in j..Len(t) :
         t[k] = Quote /\ \A m \in j..(k - 1) : t[m] # Quote
  ELSE 0

HasAt(t, j, part) ==
  j >= 1 /\ j + Len(part) - 1 <= Len(t) /\ SubSeq(t, j, j + Len(part) - 1) = part

\* the to-do object whose id ends before idEnd and whose text lies between
\* textStart and textEnd
TodoBetween(t, idEnd, textStart, textEnd) ==
  Todo(SubSeq(t, Len(TodosPrefix) + 1, idEnd - 1),
       SubSeq(t, textStart, textEnd - 1),
       IF SubSeq(t, textEnd, Len(t)) = TodoEndings.true THEN "true"
       ELSE IF SubSeq(t, textEnd, Len(t)) = TodoEndings.false THEN "false"
       ELSE "missing")

IsTodoTail(t, idEnd, textStart, textEnd) ==
  /\ idEnd > 0 /\ HasAt(t, idEnd, TextKey) /\ textEnd > 0
  /\ SubSeq(t, textEnd, Len(t))
       \in {TodoEndings.missing, TodoEndings.true, TodoEndings.false}

TextStart(t, idEnd) == idEnd + Len(TextKey)

\* text of {items: [one to-do object]}
IsTodosText(t) ==
  /\ HasAt(t, 1, TodosPrefix)
  /\ IsTodoTail(t, QuoteAfter(t, Len(TodosPrefix) + 1),
                TextStart(t, QuoteAfter(t, Len(TodosPrefix) + 1)),
                QuoteAfter(t, TextStart(t, QuoteAfter(t, Len(TodosPrefix) + 1))))

ParseTodos(t) ==
  Todos(<<TodoBetween(t, QuoteAfter(t, Len(TodosPrefix) + 1),
            TextStart(t, QuoteAfter(t, Len(TodosPrefix) + 1)),
            QuoteAfter(t, TextStart(t, QuoteAfter(t, Len(TodosPrefix) + 1))))>>)

\* JSON.parse(text): ok = FALSE stands for the SyntaxError it throws.
\* The parser accepts the compact texts Stringify produces (for to-do lists,
\* those of one object).
JsonParse(t) ==
  IF IsArrayText(t) THEN [ok |-> TRUE, value |-> Arr(ArrayItems(t))]
  ELSE IF IsObjectText(t)
    THEN [ok |-> TRUE,
          value |-> Obj(ArrayItems(SubSeq(t, Len(ItemsKey) + 1, Len(t) - 1)))]
  ELSE IF IsTodosText(t) THEN [ok |-> TRUE, value |-> ParseTodos(t)]
  ELSE [ok |-> FALSE, value |-> Null]

\* ------------------------------------------------------------------------
\* validation/schemaValidator.ts
\* ------------------------------------------------------------------------
IsWs(c) == c \in {" ", "\n", "\t"}

SetMin(S) == CHOOSE x \in S : \A y \in S : x <= y
SetMax(S) == CHOOSE x \in S : \A y \in S : x >= y

\* String.prototype.trim
TrimTo(s, keep) ==
  IF keep = {} THEN <<>> ELSE SubSeq(s, SetMin(keep), SetMax(keep))

Trim(s) == TrimTo(s, {i \in 1..Len(s) : ~IsWs(s[i])})

\* the backtick character (a TLA+ string cannot hold it literally)
Backtick == "BACKTICK"

FenceAt(s, i) ==
  /\ i + 2 <= Len(s)
  /\ s[i] = Backtick /\ s[i + 1] = Backtick /\ s[i + 2] = Backtick

\* the places of s where three backticks start
Fences(s) == {i \in 1..Len(s) : FenceAt(s, i)}

JsonTagAt(s, i) ==
  /\ i + 3 <= Len(s)
  /\ SubSeq(s, i, i + 3) = <<"j", "s", "o", "n">>

\* The code-block pattern of extractJson: three backticks, an optional json
\* tag, white space, a lazily captured group, three backticks.  F is
\* Fences(s).  The match starts at the leftmost fence that has a fence after
\* it; the tag is taken when a closing fence still follows it.
CodeBlockStarts(F) == {p \in F : \E q \in F : q >= p + 3}

AfterTag(s, F, j) ==
  IF JsonTagAt(s, j) /\ (\E q \in F : q >= j + 4) THEN j + 4 ELSE j

AfterWs(s, j) == SetMin({k \in j..Len(s) : ~IsWs(s[k])})

CapturedGroup(s, F, j) == SubSeq(s, j, SetMin({k \in F : k >= j}) - 1)

CodeBlockMatchIn(s, F, starts) ==
  IF starts = {} THEN [hit |-> FALSE, group |-> <<>>]
  ELSE [hit |-> TRUE,
        group |-> CapturedGroup(s, F,
                    AfterWs(s, AfterTag(s, F, SetMin(starts) + 3)))]

\* text.match(codeBlockPattern): hit = FALSE stands for null, group is the
\* captured group 1
CodeBlockMatch(s) == CodeBlockMatchIn(s, Fences(s), CodeBlockStarts(Fences(s)))

\* extractJson: from the first opening to the last closing bracket or brace
JsonSlice(text, opens, closes) ==
  IF opens # {} /\ closes # {} /\ SetMax(closes) > SetMin(opens)
  THEN SubSeq(text, SetMin(opens), SetMax(closes))
  ELSE <<>>

JsonBoundaries(text) ==
  JsonSlice(text, {i \in 1..Len(text) : text[i] \in {"[", "{"}},
            {i \in 1..Len(text) : text[i] \in {"]", "}"}})

\* extractJson: the trimmed group of the code block when there is one
BlockOrText(trimmed, m) == IF m.hit THEN Trim(m.group) ELSE trimmed

ExtractFromTrimmed(trimmed) ==
  JsonBoundaries(BlockOrText(trimmed, CodeBlockMatch(trimmed)))

\* extractJson(response)
ExtractJson(response) ==
  IF Len(response) = 0 THEN <<>> ELSE ExtractFromTrimmed(Trim(response))

Ellipsis == <<".", ".", ".">>

ValidationError(path, message, expected, received) ==
  [path |-> path, message |-> message, expected |-> expected,
   received |-> received]

\* text.slice(0, 100) + "..."
Received(text) ==
  SubSeq(text, 1, Min2(ReceivedSliceLen, Len(text))) \o Ellipsis

\* the schemas passed as config.schema
NumberArraySchema == "z.array(z.number())"

TodoListSchema ==
  "z.object({items: z.array(z.object({id: z.string(), text: z.string(), done: z.boolean()}))})"

\* issue.path.join(".") for the field `done` of the i-th object of items
DonePath(i) == "items." \o ToString(i - 1) \o ".done"

\* the issues of a to-do list: one for each object without `done`
RECURSIVE TodoIssues(_, _)
TodoIssues(items, i) ==
  IF i > Len(items) THEN <<>>
  ELSE (IF items[i].done = "missing"
        THEN <<ValidationError(DonePath(i), "Required", "boolean", "undefined")>>
        ELSE <<>>) \o TodoIssues(items, i + 1)

\* the issues of {items: [numbers]} under the to-do schema
NumberItemIssues(items) ==
  [i \in 1..Len(items) |->
     ValidationError("items." \o ToString(i - 1),
                     "Expected object, received number", "object", "number")]

\* schema.safeParse(data).error.issues mapped to ValidationErrors; the empty
\* sequence stands for result.success
SafeParseErrors(schema, data) ==
  IF schema = NumberArraySchema
  THEN IF data.kind = "array" THEN <<>>
       ELSE <<ValidationError("", "Expected array, received object",
                              "array", <<>>)>>
  ELSE IF data.kind = "array"
    THEN <<ValidationError("", "Expected object, received array",
                           "object", "array")>>
  ELSE IF data.kind = "todos" THEN TodoIssues(data.items, 1)
  ELSE NumberItemIssues(data.items)

ValidationOutcome(data, errors) ==
  IF Len(errors) = 0
  THEN [success |-> TRUE, data |-> data, errors |-> <<>>,
        rawJson |-> Stringify(data)]
  ELSE [success |-> FALSE, data |-> Null, errors |-> errors,
        rawJson |-> Stringify(data)]

\* validateAgainstSchema(schema, data)
ValidateAgainstSchema(schema, data) ==
  ValidationOutcome(data, SafeParseErrors(schema, data))

\* validateResponse, step 2 and 3: parse, then validate against the schema
ValidateParsed(jsonString, parsed, schema) ==
  IF ~parsed.ok
  THEN [success |-> FALSE, data |-> Null,
        errors |-> <<ValidationError("", "JSON parse error", "Valid JSON",
                                     Received(jsonString))>>,
        rawJson |-> jsonString]
  ELSE ValidateAgainstSchema(schema, parsed.value)

\* validateResponse, after step 1
ValidateExtracted(response, jsonString, schema) ==
  IF Len(jsonString) = 0
  THEN [success |-> FALSE, data |-> Null,
        errors |-> <<ValidationError("", "No JSON found in response",
                                     "JSON object or array",
                                     Received(response))>>,
        rawJson |-> <<>>]
  ELSE ValidateParsed(jsonString, JsonParse(jsonString), schema)

\* validateResponse(response, schema)
ValidateResponse(response, schema) ==
  ValidateExtracted(response, ExtractJson(response), schema)

\* ------------------------------------------------------------------------
\* utils/stateMachine.ts
\* ------------------------------------------------------------------------
MachineState ==
  {"IDLE", "OPTIMISTIC", "GENERATING", "VALIDATING", "CORRECTING", "GATING",
   "SETTLED", "REJECTED"}

TRANSITIONS ==
  << [from |-> "IDLE", event |-> "DISPATCH", to |-> "OPTIMISTIC"],
     [from |-> "IDLE", event |-> "DISPATCH_NO_OPTIMISTIC", to |-> "GENERATING"],
     [from |-> "OPTIMISTIC", event |-> "START_INFERENCE", to |-> "GENERATING"],
     [from |-> "GENERATING", event |-> "RESPONSE_RECEIVED", to |-> "VALIDATING"],
     [from |-> "GENERATING", event |-> "ERROR", to |-> "REJECTED"],
     [from |-> "VALIDATING", event |-> "VALID", to |-> "GATING"],
     [from |-> "VALIDATING", event |-> "INVALID", to |-> "CORRECTING"],
     [from |-> "CORRECTING", event |-> "RETRY", to |-> "GENERATING"],
     [from |-> "CORRECTING", event |-> "MAX_RETRIES", to |-> "REJECTED"],
     [from |-> "GATING", event |-> "CONFIDENT", to |-> "SETTLED"],
     [from |-> "GATING", event |-> "NEEDS_CONFIRMATION", to |-> "GATING"],
     [from |-> "GATING", event |-> "USER_CONFIRMED", to |-> "SETTLED"],
     [from |-> "GATING", event |-> "USER_REJECTED", to |-> "REJECTED"],
     [from |-> "SETTLED", event |-> "RESET", to |-> "IDLE"],
     [from |-> "REJECTED", event |-> "RESET", to |-> "IDLE"] >>

\* the value getNextState returns when no row matches (null)
NoState == "null"

\* a lookup that compares the event only: `t.event === event`
GetNextStateByEvent(from, event) ==
  LET hits == {i \in 1..Len(TRANSITIONS) : TRANSITIONS[i].event = event}
  IN IF hits = {} THEN NoState ELSE TRANSITIONS[SetMin(hits)].to

\* getNextState(from, event): the first matching row (Array.prototype.find)
GetNextState(from, event) ==
  LET hits == {i \in 1..Len(TRANSITIONS) :
                 TRANSITIONS[i].from = from /\ TRANSITIONS[i].event = event}
  IN IF hits = {} THEN NoState ELSE TRANSITIONS[SetMin(hits)].to

\* an entry with the two states exchanged: `from: next, to: current`
CreateAuditEntrySwapped(from, to, event) ==
  [from |-> to, to |-> from, event |-> event]

\* createAuditEntry (id and timestamp are not modelled)
CreateAuditEntry(from, to, event) == [from |-> from, to |-> to, event |-> event]

\* createInitialContext(initialData)
CreateInitialContext(initialData) ==
  [data |-> initialData, optimisticData |-> Null, currentIntent |-> "",
   error |-> "", retryCount |-> 0, confidence |-> [num |-> 1, den |-> 1],
   history |-> <<>>]

\* number of positions at which two texts carry the same character
SameChars(a, b) ==
  Cardinality({i \in 1..Min2(Len(a), Len(b)) : a[i] = b[i]})

\* calculateConfidence: the clamped sum, as the exact fraction num/den of
\*   modelConfidence*0.4 + (1 - diffRatio)*0.3 + intentClarity*0.3
\* where 1 - diffRatio = sameChars/maxLen, intentClarity = clarity/50
\* the sum returned as it is: `return confidence`
ConfidenceFractionUnclamped(raw, den) == [num |-> raw, den |-> den]

\* `Math.max(0, Math.min(1, confidence))`
ConfidenceFraction(raw, den) == [num |-> Max2(0, Min2(den, raw)), den |-> den]

\* the sum for a modelConfidence given in hundredths
ConfidenceSumWith(modelConfidence, maxLen, sameChars, clarity) ==
  ConfidenceFraction(
    modelConfidence * 4 * maxLen * IntentClarityLen
      + 300 * sameChars * IntentClarityLen + 300 * clarity * maxLen,
    1000 * maxLen * IntentClarityLen)

\* the sum for the default `modelConfidence = 0.7`
ConfidenceSum(maxLen, sameChars, clarity) ==
  ConfidenceSumWith(ModelConfidence, maxLen, sameChars, clarity)

ConfidenceOfStrings(prevString, newString, intent) ==
  ConfidenceSum(Max2(Len(prevString), Len(newString)),
                SameChars(prevString, newString),
                Min2(IntentClarityLen, Len(intent)))

\* calculateConfidence({previousState, newState, intent})
CalculateConfidence(previousState, newState, intent) ==
  ConfidenceOfStrings(Stringify(previousState), Stringify(newState), intent)

\* calculateConfidence({previousState, newState, intent, modelConfidence})
CalculateConfidenceWith(previousState, newState, intent, modelConfidence) ==
  ConfidenceSumWith(modelConfidence,
                    Max2(Len(Stringify(previousState)),
                         Len(Stringify(newState))),
                    SameChars(Stringify(previousState), Stringify(newState)),
                    Min2(IntentClarityLen, Len(intent)))

\* confidence < threshold, threshold in thousandths
BelowThreshold(confidence, threshold) ==
  confidence.num * 1000 < threshold * confidence.den

\* a size test that includes both limits:
\* `prevSize >= 50 && newSize <= prevSize * 0.3`
ShrinksToRatio(prevSize, newSize) ==
  prevSize >= DestructiveMinSize /\ newSize * 10 <= prevSize * DestructiveRatio

\* isDestructiveChange: `prevSize > 50 && newSize < prevSize * 0.3`
ShrinksBelowRatio(prevSize, newSize) ==
  prevSize > DestructiveMinSize /\ newSize * 10 < prevSize * DestructiveRatio

\* isDestructiveChange(previousState, newState)
IsDestructiveChange(previousState, newState) ==
  \/ ShrinksBelowRatio(Len(Stringify(previousState)), Len(Stringify(newState)))
  \/ /\ previousState.kind = "array" /\ newState.kind = "array"
     /\ Len(previousState.items) > 0 /\ Len(newState.items) = 0

\* ------------------------------------------------------------------------
\* validation/selfCorrection.ts
\* ------------------------------------------------------------------------
\* formatErrorsForCorrection(errors): one line per error
FormatErrorsForCorrection(errors) ==
  [i \in 1..Len(errors) |->
     IF errors[i].path # ""
     THEN <<"Field", errors[i].path, errors[i].message, errors[i].expected>>
     ELSE <<errors[i].message>>]

\* buildPrompt({schema, currentState, intent, context}): the parts of the
\* prompt text that vary (the instruction block is fixed text)
BuildPrompt(currentState, intent) ==
  [kind |-> "mutation", currentState |-> currentState, intent |-> intent]

\* a correction prompt that embeds the whole response:
\* `${invalidResponse}` for the slice and the mark
BuildCorrectionPromptUncut(originalPrompt, invalidResponse, errors) ==
  [kind |-> "correction",
   previous |-> invalidResponse,
   ellipsis |-> FALSE,
   errorDetails |-> FormatErrorsForCorrection(errors),
   original |-> originalPrompt]

\* buildCorrectionPrompt(originalPrompt, invalidResponse, errors)
BuildCorrectionPrompt(originalPrompt, invalidResponse, errors) ==
  [kind |-> "correction",
   previous |-> SubSeq(invalidResponse, 1,
                       Min2(CorrectionSliceLen, Len(invalidResponse))),
   ellipsis |-> Len(invalidResponse) > CorrectionSliceLen,
   errorDetails |-> FormatErrorsForCorrection(errors),
   original |-> originalPrompt]

\* a loop bound that is off by one: `attempts <= settings.maxRetries`
LoopConditionOffByOne(attempts, maxRetries) == attempts <= maxRetries

\* executeWithCorrection: `while (attempts < settings.maxRetries)`
LoopCondition(attempts, maxRetries) == attempts < maxRetries

\* a success test that only looks at the final attempt's error list, and
\* with the wrong sense: `if (validation.errors.length > 0 && validation.success)`
ValidationSucceededNever(validation) ==
  Len(validation.errors) > 0 /\ validation.success

\* executeWithCorrection: `if (validation.success)`
ValidationSucceeded(validation) == validation.success

\* a record that keeps the first prompt: `prompt` for `prompt: currentPrompt`
AttemptRecordFirstPrompt(response, validation, rec) ==
  [response |-> response, errors |-> validation.errors, prompt |-> rec.prompt]

\* executeWithCorrection: `history.push({response, errors, prompt})`
AttemptRecord(response, validation, rec) ==
  [response |-> response, errors |-> validation.errors,
   prompt |-> rec.currentPrompt]

\* a break that comes one attempt late: `if (attempts > settings.maxRetries)`
LastAttemptLate(attempts, maxRetries) == attempts > maxRetries

\* executeWithCorrection: `if (attempts >= settings.maxRetries) break`
LastAttempt(attempts, maxRetries) == attempts >= maxRetries

\* the CorrectionResult returned on success
SuccessResult(validation, attempts, history) ==
  [success |-> TRUE, data |-> validation.data, attempts |-> attempts,
   history |-> history]

\* the CorrectionResult returned when the retries are exhausted
FailureResult(attempts, history) ==
  [success |-> FALSE, data |-> Null, attempts |-> attempts,
   history |-> history]

NoResult == [success |-> FALSE, data |-> Null, attempts |-> -1, history |-> <<>>]

\* ------------------------------------------------------------------------
\* Inputs
\* ------------------------------------------------------------------------
NotJson == <<"n", "o", "t", " ", "j", "s", "o", "n">>

\* the texts the inference capability may answer with
Responses ==
  {NotJson, Stringify(Obj(<<1>>)), Stringify(Arr(<<1, 2, 3>>)),
   Stringify(Arr(<<>>))}

\* the answers about a to-do list
MilkText == <<"m", "i", "l", "k">>

\* {"items":[{"id":"1","text":"milk"}]}
ResponseWithoutDone == Stringify(Todos(<<Todo(<<"1">>, MilkText, "missing")>>))

\* {"items":[{"id":"1","text":"milk","done":false}]}
ResponseWithDone == Stringify(Todos(<<Todo(<<"1">>, MilkText, "false")>>))

TodoResponses == {ResponseWithoutDone, ResponseWithDone}

\* the intents passed to dispatch (12 and 60 characters)
Intents ==
  {"Add buy milk",
   "Add buy milk to the list and keep every other item as it is."}

\* the errors the inference capability may reject with
InferenceErrors == {"network error"}

\* config.initialState
initialState == Arr(<<1, 2>>)

DispatchIds == 1..MaxDispatches

\* ------------------------------------------------------------------------
\* hooks/useSemanticState.ts: state of one hook instance
\* ------------------------------------------------------------------------
VARIABLES
  config,              \* synapse.config.maxRetries, onGate given?, schema
  state,               \* useState<T>(initialState)
  machineState,        \* useState<MachineState>("IDLE")
  stateContext,        \* useState<StateContext<T>>
  pendingState,        \* useState<T | null>(null)
  pendingResolverRef,  \* dispatch whose resolver the ref holds, 0 for null
  abortControllerRef,  \* dispatch whose AbortController the ref holds, 0 for null
  aborted,             \* dispatches whose AbortSignal is aborted
  closureState,        \* `state` captured by the dispatch callback in use
  dispatches,          \* the invocations of dispatch and where each stands
  nextId,              \* number of the next invocation of dispatch
  commits,             \* log of the setState(newState) calls
  auditBy,             \* for each AuditEntry, the caller that produced it
  validated            \* data returned by successful validations

\* validation/schemaValidator.ts: the fields of one RollbackManager
VARIABLES
  maxSnapshots,        \* this.maxSnapshots
  onRollback,          \* whether config.onRollback is given
  snapshots,           \* this.snapshots
  operation,           \* the last RollbackManager call: arguments, result
                       \* and the onRollback calls it made
  snapshotRefs,        \* the identity of the object each snapshot's data is
  held                 \* the object the caller of the manager holds: the
                       \* one it passed last or was handed last

\* the last call of a pure function: its arguments and its result
VARIABLE call

\* security/rateLimiter.ts: one function wrapped by withRateLimit
VARIABLES
  limiterConfig,       \* config.maxRequests, config.windowMs
  rateLimitStore,      \* rateLimitStore.get(key), the entry of the key
  now,                 \* Date.now()
  limited              \* the last call of the wrapped function: what
                       \* consume() found and returned, whether fn ran, and
                       \* the number of the call within its window

limiterVars == <<limiterConfig, rateLimitStore, now, limited>>

\* hooks/ssrHooks.ts: one useSSRSemanticState instance
VARIABLES
  ssrState,            \* useState<T>(initialState)
  loading,             \* useState(false)
  ssrError,            \* useState<Error | null>(null), "" for null
  isServer,            \* useIsServer()
  ssrControllerRef,    \* dispatch whose AbortController the ref holds, 0 for null
  ssrAborted,          \* dispatches whose AbortSignal is aborted
  ssrDispatches,       \* the invocations of dispatch and where each stands
  ssrNextId,           \* number of the next invocation of dispatch
  ssrWrites            \* log of the setState(result.data) calls

ssrVars ==
  <<ssrState, loading, ssrError, isServer, ssrControllerRef, ssrAborted,
    ssrDispatches, ssrNextId, ssrWrites>>

hookVars ==
  <<config, state, machineState, stateContext, pendingState,
    pendingResolverRef, abortControllerRef, aborted, closureState,
    dispatches, nextId, commits, auditBy, validated>>

managerVars ==
  <<maxSnapshots, onRollback, snapshots, operation, snapshotRefs, held>>

vars == <<hookVars, managerVars, call, limiterVars, ssrVars>>

NoPrompt == [kind |-> "none"]

\* What executeWithCorrection returned, kept after the invocation has ended:
\* success, data, attempts, history, its length and the last response.
\* NotReturned stands for an invocation that has not returned yet.
NotReturned ==
  [done |-> FALSE, success |-> FALSE, data |-> Null, attempts |-> 0,
   records |-> 0, response |-> <<>>, history |-> <<>>]

Returned(result) ==
  [done |-> TRUE, success |-> result.success, data |-> result.data,
   attempts |-> result.attempts, records |-> Len(result.history),
   history |-> result.history,
   response |-> IF Len(result.history) = 0 THEN <<>>
                ELSE result.history[Len(result.history)].response]

\* the arguments of the last settings.onRetry(attempts, errors) call
NoRetry == [attempt |-> 0, errors |-> <<>>]

\* The locals of an invocation of dispatch (intent, state, prompt and, inside
\* executeWithCorrection, attempts, currentPrompt, history), where it stands
\* (pc), how it ended (outcome) and the state of its promise; calls and
\* retries count its inference and onRetry calls.
NewDispatch ==
  [pc |-> "new", intent |-> "", state |-> Null, prompt |-> NoPrompt,
   attempts |-> 0, currentPrompt |-> NoPrompt, history |-> <<>>,
   result |-> NoResult, confirmed |-> FALSE, outcome |-> "none",
   promise |-> "none", calls |-> 0, retries |-> 0, returned |-> NotReturned,
   retried |-> NoRetry, sent |-> <<>>]

\* useSemanticState(config): the hook after its first render, for a
\* configuration out of `configs` and config.initialState = initialData
HookInit(configs, initialData) ==
  /\ config \in configs
  /\ state = initialData
  /\ machineState = "IDLE"
  /\ stateContext = CreateInitialContext(initialData)
  /\ pendingState = Null
  /\ pendingResolverRef = 0
  /\ abortControllerRef = 0
  /\ aborted = {}
  /\ closureState = initialData
  /\ dispatches = [d \in DispatchIds |-> NewDispatch]
  /\ nextId = 1
  /\ commits = <<>>
  /\ auditBy = <<>>
  /\ validated = {}

\* no RollbackManager call has been made yet
NoOperation ==
  [name |-> "none", data |-> Null, intent |-> "", id |-> 0, steps |-> 0,
   reason |-> "", result |-> Null, callbacks |-> <<>>, removed |-> 0,
   count |-> 0]

\* An object in memory: its identity (ref), its contents and the call the
\* caller got it from. NoObject stands for null.
Object(ref, value, from) == [ref |-> ref, value |-> value, from |-> from]

NoObject == Object(0, Null, "none")

\* new RollbackManager(config) with config.maxSnapshots out of `sizes`
ManagerInit(sizes, callbacks) ==
  /\ snapshotRefs = <<>>
  /\ held = NoObject
  /\ maxSnapshots \in sizes
  /\ onRollback \in callbacks
  /\ snapshots = <<>>
  /\ operation = NoOperation

\* no pure function has been called yet
NoCall == [fn |-> "none"]

\* rateLimitStore.get(key) is undefined
NoEntry == [count |-> -1, windowStart |-> -1]

NoInfo == [current |-> 0, limit |-> 0, resetIn |-> 0, blocked |-> FALSE]

\* the wrapped function has not been called yet
NoLimited ==
  [fn |-> "none", wasBlocked |-> FALSE, info |-> NoInfo, executed |-> FALSE,
   window |-> -1, nth |-> 0]

ExampleLimit ==
  [maxRequests |-> ExampleMaxRequests, windowMs |-> ExampleWindowMs]

\* withRateLimit(fn, config) with config out of `configs`, on an empty
\* rateLimitStore
LimiterInit(configs) ==
  /\ limiterConfig \in configs
  /\ rateLimitStore = NoEntry
  /\ now = 0
  /\ limited = NoLimited

\* an invocation of the dispatch of useSSRSemanticState: where it stands,
\* the locals of its executeWithCorrection call (run), how it ended, and
\* whether abortControllerRef.current had changed by then
NoRun == [pc |-> "new", intent |-> "", run |-> [pc |-> "none"],
          outcome |-> "none", superseded |-> FALSE]

\* useSSRSemanticState(config) at its first render, config.initialState
\* being the hook's initialState
SSRInit ==
  /\ ssrState = initialState
  /\ loading = FALSE
  /\ ssrError = ""
  /\ isServer = TRUE
  /\ ssrControllerRef = 0
  /\ ssrAborted = {}
  /\ ssrDispatches = [d \in DispatchIds |-> NoRun]
  /\ ssrNextId = 1
  /\ ssrWrites = <<>>

\* the configurations of the hook: synapse.config.maxRetries, onGate,
\* config.schema
Configs ==
  [maxRetries : 0..MaxRetriesBound, onGate : BOOLEAN,
   schema : {NumberArraySchema}]

Init ==
  /\ HookInit(Configs, initialState)
  /\ ManagerInit({DefaultMaxSnapshots}, {FALSE})
  /\ call = NoCall
  /\ SSRInit
  /\ LimiterInit({ExampleLimit})

\* The statements of one handler run against a record of the values they
\* read and write; `by` is the invocation of dispatch that runs them (0 for
\* reset) and `stale` tells whether its AbortSignal is aborted.
World(d) ==
  [state |-> state, machineState |-> machineState,
   stateContext |-> stateContext, pendingState |-> pendingState,
   pendingResolverRef |-> pendingResolverRef, commits |-> commits,
   auditBy |-> auditBy,
   rec |-> IF d \in DispatchIds THEN dispatches[d] ELSE NewDispatch,
   by |-> d, stale |-> d \in aborted]

\* a transition that moves the lifecycle without logging the AuditEntry
TransitionUnlogged(w, event) ==
  LET next == GetNextState(w.machineState, event)
  IN IF next # NoState THEN [w EXCEPT !.machineState = next] ELSE w

\* transition(event)
Transition(w, event) ==
  LET next == GetNextState(w.machineState, event)
  IN IF next # NoState
     THEN [w EXCEPT
             !.machineState = next,
             !.stateContext.history =
               Append(@, CreateAuditEntry(w.machineState, next, event)),
             !.auditBy = Append(@, [by |-> w.by, stale |-> w.stale])]
     ELSE w

\* the invocation ends: its promise resolves and its locals are dropped
Finish(w, outcome) ==
  [w EXCEPT !.rec = [NewDispatch EXCEPT
                       !.pc = "done", !.outcome = outcome,
                       !.promise = "resolved", !.calls = w.rec.calls,
                       !.retries = w.rec.retries,
                       !.returned = w.rec.returned,
                       !.sent = w.rec.sent]]

\* dispatch: the catch block; outcome names what was caught
Catch(w, error, outcome) ==
  Finish(Transition([w EXCEPT !.stateContext.error = error], "ERROR"),
         outcome)

\* the guard with `&&` for `||`: `if (!result.success && result.data !== null)`
ValidationFailedAnd(result) == ~result.success /\ result.data # Null

\* dispatch: `if (!result.success || result.data === null)`
ValidationFailed(result) == ~result.success \/ result.data = Null

\* dispatch: `confidence < threshold || isDestructive`
NeedsGating(previousState, newState, confidence) ==
  \/ BelowThreshold(confidence, ConfidenceThreshold)
  \/ IsDestructiveChange(previousState, newState)

\* dispatch: setState(newState); onChange?.(newState, state);
\* transition(event); [setPendingState(null);] transition("RESET")
Commit(w, newState, event, how, throws) ==
  LET w1 == [w EXCEPT
               !.state = newState,
               !.commits =
                 Append(@, [by |-> w.by, value |-> newState, how |-> how,
                            stale |-> w.stale,
                            needsGating |->
                              NeedsGating(w.rec.state, newState,
                                CalculateConfidence(w.rec.state, newState,
                                                    w.rec.intent))])]
  IN IF throws
     THEN Catch(w1, "onChange threw", "callback_error")
     ELSE
       LET w2 == Transition(w1, event)
           w3 == IF how = "manual" THEN [w2 EXCEPT !.pendingState = Null]
                 ELSE w2
       IN Finish(Transition(w3, "RESET"), "settled")

\* dispatch, from the return of executeWithCorrection to the next await;
\* `throws` tells whether the onChange callback throws when it is called
AfterCorrection(w0, result, throws) ==
  LET w == Transition([w0 EXCEPT !.rec.result = result,
                                 !.rec.returned = Returned(result)],
                      "RESPONSE_RECEIVED")
  IN IF ValidationFailed(result)
     THEN Finish(Transition(
                   [w EXCEPT !.stateContext.error =
                               "Failed to generate valid state after retries"],
                   "MAX_RETRIES"),
                 "exhausted")
     ELSE
       LET w1 == Transition(w, "VALID")
           newState == result.data
           confidence == CalculateConfidence(w.rec.state, newState, w.rec.intent)
           w2 == [w1 EXCEPT !.stateContext.confidence = confidence]
       IN IF NeedsGating(w.rec.state, newState, confidence)
          THEN
            LET w3 == Transition(w2, "NEEDS_CONFIRMATION")
            IN IF config.onGate
               THEN [w3 EXCEPT !.rec.pc = "gate"]
               ELSE [w3 EXCEPT !.pendingState = newState,
                               !.pendingResolverRef = w.by,
                               !.rec.pc = "confirm"]
          ELSE Commit(w2, newState, "CONFIDENT", "auto", throws)

\* executeWithCorrection, from the top of the loop to the inference call
EnterLoop(w) ==
  IF LoopCondition(w.rec.attempts, config.maxRetries)
  THEN [w EXCEPT !.rec.attempts = @ + 1, !.rec.calls = @ + 1,
                 !.rec.sent = Append(@, w.rec.currentPrompt),
                 !.rec.pc = "inferring"]
  ELSE AfterCorrection(w, FailureResult(w.rec.attempts, w.rec.history), FALSE)

\* the values a handler leaves behind
Store(w) ==
  /\ state' = w.state
  /\ machineState' = w.machineState
  /\ stateContext' = w.stateContext
  /\ pendingState' = w.pendingState
  /\ pendingResolverRef' = w.pendingResolverRef
  /\ commits' = w.commits
  /\ auditBy' = w.auditBy
  /\ dispatches' = IF w.by \in DispatchIds
                   THEN [dispatches EXCEPT ![w.by] = w.rec]
                   ELSE dispatches

\* dispatch(intent) up to its first await
Dispatch(intent) ==
  /\ nextId <= MaxDispatches
  /\ LET d == nextId
         nowAborted == IF abortControllerRef # 0
                       THEN aborted \cup {abortControllerRef}
                       ELSE aborted
         w0 == [World(d) EXCEPT
                  !.stale = d \in nowAborted,
                  !.stateContext.currentIntent = intent,
                  !.stateContext.error = "",
                  !.rec.intent = intent,
                  !.rec.state = closureState,
                  !.rec.promise = "pending"]
         w1 == Transition(w0, "DISPATCH_NO_OPTIMISTIC")
         prompt == BuildPrompt(closureState, intent)
         w2 == [w1 EXCEPT !.rec.prompt = prompt, !.rec.currentPrompt = prompt]
     IN /\ aborted' = nowAborted
        /\ abortControllerRef' = d
        /\ nextId' = nextId + 1
        /\ IF d \in nowAborted
           THEN Store(Finish(w1, "aborted"))
           ELSE Store(EnterLoop(w2))
        /\ UNCHANGED <<ssrVars, managerVars, limiterVars, call, config, closureState, validated>>

\* the inference call of dispatch d resolves with `response`
InferenceResolve(d, response, throws) ==
  /\ dispatches[d].pc = "inferring"
  /\ LET w == World(d)
         validation == ValidateResponse(response, config.schema)
         history == Append(w.rec.history,
                           AttemptRecord(response, validation, w.rec))
         w1 == [w EXCEPT !.rec.history = history]
     IN /\ validated' = IF validation.success
                        THEN validated \cup {validation.data} ELSE validated
        /\ IF ValidationSucceeded(validation)
           THEN Store(AfterCorrection(
                        w1, SuccessResult(validation, w.rec.attempts, history),
                        throws))
           ELSE IF LastAttempt(w.rec.attempts, config.maxRetries)
           THEN Store(AfterCorrection(
                        w1, FailureResult(w.rec.attempts, history), throws))
           ELSE
             \* settings.onRetry(attempts, errors), next prompt, loop
             LET w2 == Transition(
                         [w1 EXCEPT
                            !.stateContext.retryCount = w.rec.attempts,
                            !.rec.retries = @ + 1,
                            !.rec.retried =
                              [attempt |-> w.rec.attempts,
                               errors |-> validation.errors],
                            !.rec.currentPrompt =
                              BuildCorrectionPrompt(w.rec.prompt, response,
                                                    validation.errors)],
                         "RETRY")
             IN Store(EnterLoop(w2))
  /\ UNCHANGED <<ssrVars, managerVars, limiterVars, call, config, abortControllerRef, aborted, closureState, nextId>>

\* the inference call of dispatch d rejects with `error`
InferenceReject(d, error) ==
  /\ dispatches[d].pc = "inferring"
  /\ Store(Catch(World(d), error, "inference_error"))
  /\ UNCHANGED <<ssrVars, managerVars, limiterVars, call, config, abortControllerRef, aborted, closureState, nextId,
                 validated>>

\* the promise of onGate resolves with `confirmed`
GateResolve(d, confirmed, throws) ==
  /\ dispatches[d].pc = "gate"
  /\ LET w == [World(d) EXCEPT !.rec.confirmed = confirmed]
     IN IF confirmed
        THEN Store(Commit(w, w.rec.result.data, "USER_CONFIRMED", "gate",
                          throws))
        ELSE Store(Finish(Transition(Transition(w, "USER_REJECTED"), "RESET"),
                          "rejected"))
  /\ UNCHANGED <<ssrVars, managerVars, limiterVars, call, config, abortControllerRef, aborted, closureState, nextId,
                 validated>>

\* onGate throws or its promise rejects
GateReject(d) ==
  /\ dispatches[d].pc = "gate"
  /\ Store(Catch(World(d), "onGate threw", "callback_error"))
  /\ UNCHANGED <<ssrVars, managerVars, limiterVars, call, config, abortControllerRef, aborted, closureState, nextId,
                 validated>>

\* confirmChange() / rejectChange(): with a null ref the call does nothing
Signal(confirmed) ==
  /\ pendingResolverRef # 0
  /\ dispatches' = [dispatches EXCEPT
                      ![pendingResolverRef].pc = "resumed",
                      ![pendingResolverRef].confirmed = confirmed]
  /\ pendingResolverRef' = 0
  /\ UNCHANGED <<ssrVars, managerVars, limiterVars, call, config, state, machineState, stateContext, pendingState,
                 abortControllerRef, aborted, closureState, nextId, commits,
                 auditBy, validated>>

confirmChange == Signal(TRUE)

rejectChange == Signal(FALSE)

\* dispatch d continues after its confirmation promise has resolved
Resume(d, throws) ==
  /\ dispatches[d].pc = "resumed"
  /\ LET w == World(d)
     IN IF w.rec.confirmed
        THEN Store(Commit(w, w.rec.result.data, "USER_CONFIRMED", "manual",
                          throws))
        ELSE Store(Finish(
                     Transition(
                       [Transition(w, "USER_REJECTED") EXCEPT
                          !.pendingState = Null],
                       "RESET"),
                     "rejected"))
  /\ UNCHANGED <<ssrVars, managerVars, limiterVars, call, config, abortControllerRef, aborted, closureState, nextId,
                 validated>>

\* reset(): without a RESET row for the current state and without an error
\* the call changes nothing
reset ==
  /\ machineState \in {"SETTLED", "REJECTED"} \/ stateContext.error # ""
  /\ Store([Transition(World(0), "RESET") EXCEPT !.stateContext.error = ""])
  /\ UNCHANGED <<ssrVars, managerVars, limiterVars, call, config, abortControllerRef, aborted, closureState, nextId,
                 validated>>

\* the component renders again: useCallback builds dispatch over the
\* committed state, and the caller picks the new callback up
Rerender ==
  /\ closureState # state
  /\ closureState' = state
  /\ UNCHANGED <<ssrVars, managerVars, limiterVars, call, config, state, machineState, stateContext, pendingState,
                 pendingResolverRef, abortControllerRef, aborted, dispatches,
                 nextId, commits, auditBy, validated>>

Next ==
  \/ \E intent \in Intents : Dispatch(intent)
  \/ \E d \in DispatchIds, response \in Responses, throws \in BOOLEAN :
       InferenceResolve(d, response, throws)
  \/ \E d \in DispatchIds, error \in InferenceErrors : InferenceReject(d, error)
  \/ \E d \in DispatchIds, confirmed \in BOOLEAN, throws \in BOOLEAN :
       GateResolve(d, confirmed, throws)
  \/ \E d \in DispatchIds : GateReject(d)
  \/ confirmChange
  \/ rejectChange
  \/ \E d \in DispatchIds, throws \in BOOLEAN : Resume(d, throws)
  \/ reset
  \/ Rerender

Spec == Init /\ [][Next]_vars

\* The hook under a synapse.config.maxRetries around zero: negative, zero
\* and one attempt.
RetryLimitConfigs ==
  [maxRetries : (0 - 1)..1, onGate : BOOLEAN, schema : {NumberArraySchema}]

InitRetryLimits ==
  /\ HookInit(RetryLimitConfigs, initialState)
  /\ ManagerInit({DefaultMaxSnapshots}, {FALSE})
  /\ call = NoCall
  /\ SSRInit
  /\ LimiterInit({ExampleLimit})

SpecRetryLimits == InitRetryLimits /\ [][Next]_vars

\* One invocation of dispatch on a fresh hook instance, run to its end.
NextSingle ==
  \/ \E intent \in Intents : nextId = 1 /\ Dispatch(intent)
  \/ \E response \in Responses, throws \in BOOLEAN :
       InferenceResolve(1, response, throws)
  \/ \E error \in InferenceErrors : InferenceReject(1, error)
  \/ \E confirmed \in BOOLEAN, throws \in BOOLEAN :
       GateResolve(1, confirmed, throws)
  \/ GateReject(1)
  \/ confirmChange
  \/ rejectChange
  \/ \E throws \in BOOLEAN : Resume(1, throws)
  \/ reset
  \/ Rerender

SpecSingle == Init /\ [][NextSingle]_vars

\* Model output around the 500 characters that buildCorrectionPrompt keeps:
\* text without any JSON in it, of the given length
LongText(n) == [i \in 1..n |-> DigitChar[(i % 10) + 1]]

CorrectionResponses ==
  Responses \cup {LongText(CorrectionSliceLen), LongText(CorrectionSliceLen + 1)}

\* One invocation of dispatch whose inference may answer at length.
NextCorrection ==
  \/ \E intent \in Intents : nextId = 1 /\ Dispatch(intent)
  \/ \E response \in CorrectionResponses, throws \in BOOLEAN :
       InferenceResolve(1, response, throws)
  \/ \E error \in InferenceErrors : InferenceReject(1, error)
  \/ \E confirmed \in BOOLEAN, throws \in BOOLEAN :
       GateResolve(1, confirmed, throws)
  \/ GateReject(1)
  \/ confirmChange
  \/ rejectChange
  \/ \E throws \in BOOLEAN : Resume(1, throws)
  \/ reset
  \/ Rerender

\* the default number of attempts, so that a second correction prompt is sent
CorrectionConfigs ==
  [maxRetries : {DefaultMaxRetries}, onGate : BOOLEAN,
   schema : {NumberArraySchema}]

InitCorrection ==
  /\ HookInit(CorrectionConfigs, initialState)
  /\ ManagerInit({DefaultMaxSnapshots}, {FALSE})
  /\ call = NoCall
  /\ SSRInit
  /\ LimiterInit({ExampleLimit})

SpecCorrection == InitCorrection /\ [][NextCorrection]_vars

\* ------------------------------------------------------------------------
\* validation/schemaValidator.ts: RollbackManager
\* ------------------------------------------------------------------------
\* the data passed to snapshot() and autoRollback()
SnapshotData == {Arr(<<1>>), Arr(<<1, 2>>)}

\* The ids snapshot() may generate.  The id is built from Date.now() and six
\* random characters, so two snapshots may get the same id.
SnapshotIds == 1..MaxSnapshotIds

\* the step counts passed to rollbackSteps()
StepCounts == 0..(MaxSnapshotsBound + 1)

Reasons == {"Validation failed"}

\* the labels passed to snapshot()
SnapshotIntents == {"Add buy milk"}

\* a StateSnapshot (the timestamp is not modelled)
StateSnapshot(id, data, intent) == [id |-> id, data |-> data, intent |-> intent]

\* a trim loop that evicts from the newest end: `this.snapshots.pop()`
TrimNewest(s, max) == SubSeq(s, 1, Min2(Len(s), max))

\* snapshot: `while (this.snapshots.length > this.maxSnapshots) shift()`
RECURSIVE TrimOldest(_, _)
TrimOldest(s, max) == IF Len(s) > max THEN TrimOldest(Tail(s), max) ELSE s

\* getLastGoodState(): Null stands for null
LastGoodState(s) == IF Len(s) = 0 THEN Null ELSE s[Len(s)].data

\* this.snapshots.findIndex((s) => s.id === snapshotId), counted from 1;
\* 0 stands for -1
FindIndex(s, snapshotId) ==
  IF \E i \in 1..Len(s) : s[i].id = snapshotId
  THEN SetMin({i \in 1..Len(s) : s[i].id = snapshotId})
  ELSE 0

\* a slice that drops the target too: `this.snapshots.slice(0, index)`
SliceBefore(s, index) == SubSeq(s, 1, index - 1)

\* `this.snapshots.slice(0, index + 1)`, index counted from 1
SliceThrough(s, index) == SubSeq(s, 1, index)

\* the identity of a newly allocated object: one no live object has
FreshRef(used) == SetMin({r \in 1..(Cardinality(used) + 1) : r \notin used})

\* the objects this.snapshots refers to
StoredRefs == {snapshotRefs[i] : i \in 1..Len(snapshotRefs)}

\* a clone that is the object itself: `return data`
DeepCloneShared(object, used) == object

\* deepClone(data) of an object: structuredClone gives a new object with
\* the same contents
DeepClone(object, used) == [object EXCEPT !.ref = FreshRef(used)]

\* the value a call returns to the caller: the clone of the data of
\* snapshot i
ClonedSnapshot(i, from) ==
  DeepClone(Object(snapshotRefs[i], snapshots[i].data, from), StoredRefs)

\* the record of a RollbackManager call; `removed` counts the snapshots
\* the call dropped from this.snapshots
Operation(name, result, callbacks, removed) ==
  [NoOperation EXCEPT !.name = name, !.result = result,
                      !.callbacks = callbacks, !.removed = removed]

\* Object identities matter only up to renaming: after a call the objects
\* of this.snapshots are numbered by their place and the caller's object
\* gets the next number, unless it is one of them.
FirstAt(refs, r) == SetMin({i \in 1..Len(refs) : refs[i] = r})

Renumbered(refs) == [i \in 1..Len(refs) |-> FirstAt(refs, refs[i])]

RenumberedObject(refs, object) ==
  IF object.ref = 0 THEN object
  ELSE IF \E i \in 1..Len(refs) : refs[i] = object.ref
    THEN [object EXCEPT !.ref = FirstAt(refs, object.ref)]
  ELSE [object EXCEPT !.ref = Len(refs) + 1]

\* the objects left after a call: those of this.snapshots and the caller's
Remember(refs, object) ==
  /\ snapshotRefs' = Renumbered(refs)
  /\ held' = RenumberedObject(refs, object)

\* snapshot(data, intent), generating `id`; the caller passes a new object
\* with the contents `data` and keeps it
snapshot(data, intent, id) ==
  /\ LET argument == Object(FreshRef(StoredRefs), data, "snapshot")
         stored == DeepClone(argument, StoredRefs \cup {argument.ref})
     IN /\ snapshots' =
             TrimOldest(Append(snapshots,
                               StateSnapshot(id, stored.value, intent)),
                        maxSnapshots)
        /\ Remember(TrimOldest(Append(snapshotRefs, stored.ref), maxSnapshots),
                    argument)
  /\ operation' = [Operation("snapshot", Null, <<>>,
                             Len(snapshots) + 1 - Len(snapshots')) EXCEPT
                     !.data = data, !.intent = intent, !.id = id]
  /\ UNCHANGED <<ssrVars, hookVars, limiterVars, call, maxSnapshots, onRollback>>

\* getLastGoodState()
getLastGoodState ==
  /\ Remember(snapshotRefs,
              IF Len(snapshots) = 0 THEN NoObject
              ELSE ClonedSnapshot(Len(snapshots), "getLastGoodState"))
  /\ operation' = Operation("getLastGoodState", held'.value, <<>>, 0)
  /\ UNCHANGED <<ssrVars, hookVars, limiterVars, call, maxSnapshots, onRollback, snapshots>>

\* rollbackTo(snapshotId)
rollbackTo(snapshotId) ==
  /\ LET index == FindIndex(snapshots, snapshotId)
     IN IF index = 0
        THEN /\ snapshots' = snapshots
             /\ Remember(snapshotRefs, NoObject)
             /\ operation' = [Operation("rollbackTo", Null, <<>>, 0) EXCEPT
                                !.id = snapshotId]
        ELSE /\ snapshots' = SliceThrough(snapshots, index)
             /\ Remember(SliceThrough(snapshotRefs, index),
                         ClonedSnapshot(index, "rollbackTo"))
             /\ operation' =
                  [Operation("rollbackTo", held'.value, <<>>,
                             Len(snapshots) - Len(snapshots')) EXCEPT
                     !.id = snapshotId]
  /\ UNCHANGED <<ssrVars, hookVars, limiterVars, call, maxSnapshots, onRollback>>

\* rollbackSteps(steps)
rollbackSteps(steps) ==
  /\ LET targetIndex == Len(snapshots) - steps
     IN IF targetIndex < 1
        THEN /\ snapshots' = snapshots
             /\ Remember(snapshotRefs,
                         IF Len(snapshots) > 0
                         THEN ClonedSnapshot(1, "rollbackSteps")
                         ELSE NoObject)
             /\ operation' =
                  [Operation("rollbackSteps", held'.value, <<>>, 0) EXCEPT
                     !.steps = steps]
        ELSE /\ snapshots' = SliceThrough(snapshots, targetIndex)
             /\ Remember(SliceThrough(snapshotRefs, targetIndex),
                         ClonedSnapshot(targetIndex, "rollbackSteps"))
             /\ operation' =
                  [Operation("rollbackSteps", held'.value,
                             <<>>, Len(snapshots) - Len(snapshots')) EXCEPT
                     !.steps = steps]
  /\ UNCHANGED <<ssrVars, hookVars, limiterVars, call, maxSnapshots, onRollback>>

\* autoRollback(currentState, reason)
autoRollback(currentState, reason) ==
  /\ Remember(snapshotRefs,
              IF Len(snapshots) = 0 THEN NoObject
              ELSE ClonedSnapshot(Len(snapshots), "autoRollback"))
  /\ LET lastGood == held'.value
     IN operation' =
          [Operation("autoRollback", lastGood,
                     IF lastGood # Null /\ onRollback
                     THEN <<[from |-> currentState, to |-> lastGood,
                             reason |-> reason]>>
                     ELSE <<>>, 0) EXCEPT
             !.data = currentState, !.reason = reason]
  /\ UNCHANGED <<ssrVars, hookVars, limiterVars, call, maxSnapshots, onRollback, snapshots>>

\* getHistory(); the caller keeps the data of the entry at `index` of the
\* returned array (nothing when the array is shorter)
getHistory(index) ==
  /\ Remember(snapshotRefs,
              IF index > Len(snapshots) THEN NoObject
              ELSE ClonedSnapshot(index, "getHistory"))
  /\ operation' = [Operation("getHistory", held'.value, <<>>, 0) EXCEPT
                     !.steps = index]
  /\ UNCHANGED <<ssrVars, hookVars, limiterVars, call, maxSnapshots, onRollback, snapshots>>

\* clear()
clear ==
  /\ snapshots' = <<>>
  /\ Remember(<<>>, held)
  /\ operation' = Operation("clear", Null, <<>>, Len(snapshots))
  /\ UNCHANGED <<ssrVars, hookVars, limiterVars, call, maxSnapshots, onRollback>>

\* a count without the clamp: `this.snapshots.length - 1`
AvailableRollbacksUnclamped(s) == Len(s) - 1

\* get availableRollbacks: `Math.max(0, this.snapshots.length - 1)`
AvailableRollbacks(s) == Max2(0, Len(s) - 1)

\* manager.availableRollbacks is read
availableRollbacks ==
  /\ operation' = [Operation("availableRollbacks", Null, <<>>, 0) EXCEPT
                     !.count = AvailableRollbacks(snapshots)]
  /\ UNCHANGED <<ssrVars, hookVars, limiterVars, call, maxSnapshots, onRollback, snapshots,
                 snapshotRefs, held>>

\* the caller changes the object it holds in place, e.g. data.items.push(4):
\* every reference to that object sees the new contents
mutate(data) ==
  /\ held.ref # 0 /\ data # held.value
  /\ held' = [held EXCEPT !.value = data]
  /\ snapshots' =
       [i \in 1..Len(snapshots) |->
          IF snapshotRefs[i] = held.ref
          THEN [snapshots[i] EXCEPT !.data = data] ELSE snapshots[i]]
  /\ operation' = [Operation("mutate", Null, <<>>, 0) EXCEPT !.data = data]
  /\ UNCHANGED <<ssrVars, hookVars, limiterVars, call, maxSnapshots, onRollback, snapshotRefs>>

\* a RollbackManager of its own, called in any order
InitManager ==
  /\ HookInit({[maxRetries |-> DefaultMaxRetries, onGate |-> FALSE,
                schema |-> NumberArraySchema]},
              initialState)
  /\ ManagerInit(0..MaxSnapshotsBound, BOOLEAN)
  /\ call = NoCall
  /\ SSRInit
  /\ LimiterInit({ExampleLimit})

NextManager ==
  \/ \E data \in SnapshotData, intent \in SnapshotIntents, id \in SnapshotIds :
       snapshot(data, intent, id)
  \/ getLastGoodState
  \/ \E snapshotId \in SnapshotIds : rollbackTo(snapshotId)
  \/ \E steps \in StepCounts : rollbackSteps(steps)
  \/ \E currentState \in SnapshotData, reason \in Reasons :
       autoRollback(currentState, reason)
  \/ \E index \in 1..MaxSnapshotsBound : getHistory(index)
  \/ clear
  \/ availableRollbacks
  \/ \E data \in SnapshotData : mutate(data)

SpecManager == InitManager /\ [][NextManager]_vars

\* ------------------------------------------------------------------------
\* security/rateLimiter.ts: createRateLimiter, withRateLimit
\* ------------------------------------------------------------------------
\* getEntry() at time t: a new window if none exists or the window expired
GetEntry(entry, t, windowMs) ==
  IF entry = NoEntry \/ t - entry.windowStart >= windowMs
  THEN [count |-> 0, windowStart |-> t]
  ELSE entry

\* getInfo(), for the entry getEntry() gave it and its own Date.now()
GetInfo(entry, t, limit) ==
  [current |-> entry.count, limit |-> limit.maxRequests,
   resetIn |-> Max2(0, limit.windowMs - (t - entry.windowStart)),
   blocked |-> entry.count >= limit.maxRequests]

\* consume: `const wasBlocked = entry.count >= maxRequests`
WasBlocked(entry, limit) == entry.count >= limit.maxRequests

\* consume: `if (!wasBlocked) entry.count++`
Counted(entry, limit) ==
  IF ~WasBlocked(entry, limit) THEN [entry EXCEPT !.count = @ + 1] ELSE entry

\* consume(), with Date.now() giving t1 in its getEntry(), then t2 in the
\* getEntry() of getInfo() and t3 in getInfo() itself: the entry it leaves
\* in the store and the info it returns
ConsumeEntry(entry, t1, t2, limit) ==
  GetEntry(Counted(GetEntry(entry, t1, limit.windowMs), limit), t2,
           limit.windowMs)

ConsumeInfo(entry, t1, t2, t3, limit) ==
  GetInfo(ConsumeEntry(entry, t1, t2, limit), t3, limit)

\* the function returned by withRateLimit is called; d1 and d2 are the
\* milliseconds that pass between the readings of Date.now()
wrappedCall(d1, d2) ==
  /\ now + d1 + d2 <= MaxTime
  /\ LET first == GetEntry(rateLimitStore, now, limiterConfig.windowMs)
         info == ConsumeInfo(rateLimitStore, now, now + d1, now + d1 + d2,
                             limiterConfig)
         nth == IF limited.window = first.windowStart THEN limited.nth + 1
                ELSE 1
     IN /\ nth <= limiterConfig.maxRequests + 2
        /\ rateLimitStore' =
             ConsumeEntry(rateLimitStore, now, now + d1, limiterConfig)
        /\ limited' =
             [fn |-> "call", wasBlocked |-> WasBlocked(first, limiterConfig),
              info |-> info, executed |-> ~info.blocked,
              window |-> first.windowStart, nth |-> nth]
  /\ now' = now + d1 + d2
  /\ UNCHANGED <<ssrVars, hookVars, managerVars, call, limiterConfig>>

\* time passes
Advance ==
  /\ now < MaxTime
  /\ now' = now + 1
  /\ UNCHANGED <<ssrVars, hookVars, managerVars, call, limiterConfig, rateLimitStore,
                 limited>>

LimiterConfigs ==
  [maxRequests : 1..MaxRequestsBound, windowMs : 1..MaxWindowMs]

InitLimiter ==
  /\ HookInit({[maxRetries |-> DefaultMaxRetries, onGate |-> FALSE,
                schema |-> NumberArraySchema]},
              initialState)
  /\ ManagerInit({DefaultMaxSnapshots}, {FALSE})
  /\ call = NoCall
  /\ SSRInit
  /\ LimiterInit(LimiterConfigs)

NextLimiter ==
  \/ \E d1 \in 0..1, d2 \in 0..1 : wrappedCall(d1, d2)
  \/ Advance

SpecLimiter == InitLimiter /\ [][NextLimiter]_vars

\* ------------------------------------------------------------------------
\* Calls of the pure functions of utils/stateMachine.ts
\* ------------------------------------------------------------------------
\* the event names of the transition table and one that is in no row
Events ==
  {TRANSITIONS[i].event : i \in 1..Len(TRANSITIONS)} \cup {"UNKNOWN_EVENT"}

\* getNextState(from, event) is called
getNextState(from, event) ==
  /\ call' = [fn |-> "getNextState", from |-> from, event |-> event,
              result |-> GetNextState(from, event)]
  /\ UNCHANGED <<ssrVars, hookVars, managerVars, limiterVars>>

\* A value passed as `response`: a string (its text) or, since the type is
\* not checked at run time, null, undefined or a number.
Content(type, text) == [type |-> type, text |-> text]

\* the texts passed to the functions of schemaValidator.ts
ResponseTexts ==
  Responses \cup TodoResponses
    \cup {<<>>, <<" ">>, <<"{">>, <<"}", "{">>, <<"[", "1", ",", "]">>}

Contents ==
  {Content("string", t) : t \in ResponseTexts}
    \cup {Content("null", <<>>), Content("undefined", <<>>),
          Content("number", <<"4", "2">>)}

Schemas == {NumberArraySchema, TodoListSchema}

NoValidation ==
  [success |-> FALSE, data |-> Null, errors |-> <<>>, rawJson |-> <<>>]

\* validateResponse(response, schema) for any value of `response`: for a
\* value that is not a string extractJson returns "" and the error record
\* evaluates `response.slice(0, 100)`, a TypeError for null, undefined and
\* numbers
ValidateResponseOf(content, schema) ==
  IF content.type = "string"
  THEN [threw |-> FALSE, result |-> ValidateResponse(content.text, schema)]
  ELSE [threw |-> TRUE, result |-> NoValidation]

\* validateResponse(response, schema) is called
validateResponse(content, schema) ==
  /\ call' = [fn |-> "validateResponse", response |-> content,
              schema |-> schema,
              threw |-> ValidateResponseOf(content, schema).threw,
              result |-> ValidateResponseOf(content, schema).result]
  /\ UNCHANGED <<ssrVars, hookVars, managerVars, limiterVars>>

\* the states passed to the functions of stateMachine.ts: arrays of numbers
\* and objects {items: [numbers]}
StateValues ==
  {Arr(<<>>), Arr(<<1>>), Arr(<<1, 2, 3>>),
   Obj(<<>>), Obj(<<1>>), Obj(<<1, 2, 3>>)}

\* a to-do list of one item whose JSON text has `size` characters
StateOfSize(size) ==
  Todos(<<Todo(<<"1">>, [i \in 1..(size - 32) |-> "a"], "missing")>>)

\* an array of `n` single-digit numbers, 2n + 1 characters of JSON
ArrayOfLength(n) == Arr([i \in 1..n |-> 1])

\* states around the two limits of isDestructiveChange: 50, 51 and 70
\* characters, and 19, 21 and 51 characters (21 is 30% of 70)
SizedStates ==
  {StateOfSize(DestructiveMinSize), StateOfSize(DestructiveMinSize + 1),
   StateOfSize(70), ArrayOfLength(9), ArrayOfLength(10), ArrayOfLength(25)}

\* isDestructiveChange(previousState, newState) is called
isDestructiveChange(previousState, newState) ==
  /\ call' = [fn |-> "isDestructiveChange", previousState |-> previousState,
              newState |-> newState,
              result |-> IsDestructiveChange(previousState, newState)]
  /\ UNCHANGED <<ssrVars, hookVars, managerVars, limiterVars>>

\* three backticks, and the opening of a block tagged json
Fence == <<Backtick, Backtick, Backtick>>
JsonFence == Fence \o <<"j", "s", "o", "n", "\n">>

\* Model output with and without code blocks: a block holding an array, the
\* same with prose (and a brace) around it, an untagged block, a block
\* holding the number 42, a block holding an array between other words, two
\* blocks, and prose around an array without any block.
FencedTexts ==
  {JsonFence \o Stringify(Arr(<<1>>)) \o <<"\n">> \o Fence,
   <<"{", "x", "}", ":", "\n">> \o JsonFence \o Stringify(Arr(<<1>>))
     \o <<"\n">> \o Fence \o <<" ", "o", "k", "]">>,
   Fence \o <<"\n">> \o Stringify(Obj(<<1>>)) \o <<"\n">> \o Fence,
   JsonFence \o <<"4", "2", "\n">> \o Fence,
   JsonFence \o <<"x", " ", "=", " ">> \o Stringify(Arr(<<1>>))
     \o <<";", "\n">> \o Fence,
   JsonFence \o Stringify(Arr(<<1>>)) \o Fence \o <<" ", "o", "r", " ">>
     \o Fence \o Stringify(Arr(<<2>>)) \o Fence,
   <<"a", " ">> \o Stringify(Arr(<<1>>)) \o <<" ", "b">>}

\* extractJson(response) is called with a string
extractJson(response) ==
  /\ call' = [fn |-> "extractJson", response |-> response,
              result |-> ExtractJson(response)]
  /\ UNCHANGED <<ssrVars, hookVars, managerVars, limiterVars>>

\* the values passed as modelConfidence, in hundredths: below 0, the
\* default 0.7, above 1
ModelConfidences == {-100, 0, ModelConfidence, 100, 300}

\* the intents passed to calculateConfidence: empty, 12 and 60 characters
ConfidenceIntents == Intents \cup {""}

\* calculateConfidence({previousState, newState, intent, modelConfidence})
\* is called
calculateConfidence(previousState, newState, intent, modelConfidence) ==
  /\ call' = [fn |-> "calculateConfidence", previousState |-> previousState,
              newState |-> newState, intent |-> intent,
              modelConfidence |-> modelConfidence,
              result |-> CalculateConfidenceWith(previousState, newState,
                                                 intent, modelConfidence)]
  /\ UNCHANGED <<ssrVars, hookVars, managerVars, limiterVars>>

InitCalls ==
  /\ HookInit({[maxRetries |-> DefaultMaxRetries, onGate |-> FALSE,
                schema |-> NumberArraySchema]},
              initialState)
  /\ ManagerInit({DefaultMaxSnapshots}, {FALSE})
  /\ call = NoCall
  /\ SSRInit
  /\ LimiterInit({ExampleLimit})

NextCalls ==
  \/ \E from \in MachineState, event \in Events : getNextState(from, event)
  \/ \E content \in Contents, schema \in Schemas :
       validateResponse(content, schema)
  \/ \E previousState \in StateValues \cup SizedStates,
        newState \in StateValues \cup SizedStates :
       isDestructiveChange(previousState, newState)
  \/ \E previousState \in StateValues, newState \in StateValues,
        intent \in ConfidenceIntents, modelConfidence \in ModelConfidences :
       calculateConfidence(previousState, newState, intent, modelConfidence)
  \/ \E response \in FencedTexts \cup ResponseTexts : extractJson(response)

SpecCalls == InitCalls /\ [][NextCalls]_vars

\* ------------------------------------------------------------------------
\* executeWithCorrection on its own: one invocation, its locals held in
\* `call` (attempts, currentPrompt, history), pc where it stands, calls and
\* retries the inference and onRetry calls made so far, results the number
\* of times the invocation has produced an outcome.
\* ------------------------------------------------------------------------

\* config.maxRetries as a caller may pass it, and the default
RetryLimits == ((0 - 1)..MaxRetriesBound) \cup {DefaultMaxRetries}

Prompts == {BuildPrompt(initialState, intent) : intent \in Intents}

\* the invocation at the head of `while (attempts < settings.maxRetries)`
LoopHead(c) ==
  IF LoopCondition(c.attempts, c.maxRetries)
  THEN [c EXCEPT !.attempts = @ + 1, !.calls = @ + 1, !.pc = "inferring"]
  ELSE [c EXCEPT !.pc = "returned", !.results = @ + 1,
                 !.result = FailureResult(c.attempts, c.history)]

\* executeWithCorrection({prompt, schema, inference, config: {maxRetries}})
executeWithCorrection(prompt, maxRetries) ==
  /\ call = NoCall
  /\ SSRInit
  /\ call' = LoopHead([fn |-> "executeWithCorrection", prompt |-> prompt,
                       maxRetries |-> maxRetries, pc |-> "entered",
                       attempts |-> 0, currentPrompt |-> prompt,
                       history |-> <<>>, result |-> NoResult, error |-> "",
                       calls |-> 0, retries |-> 0, results |-> 0])
  /\ UNCHANGED <<ssrVars, hookVars, managerVars, limiterVars>>

\* the loop body after `await inference(currentPrompt)` resolved with
\* `response`; `throws` tells whether config.onRetry throws when called
AfterInference(c, response, validation, throws) ==
  IF ValidationSucceeded(validation)
  THEN [c EXCEPT !.pc = "returned", !.results = @ + 1,
                 !.result = SuccessResult(validation, c.attempts, c.history)]
  ELSE IF LastAttempt(c.attempts, c.maxRetries)
  THEN [c EXCEPT !.pc = "returned", !.results = @ + 1,
                 !.result = FailureResult(c.attempts, c.history)]
  ELSE IF throws
  THEN [c EXCEPT !.pc = "rejected", !.results = @ + 1, !.retries = @ + 1,
                 !.error = "onRetry threw"]
  ELSE LoopHead([c EXCEPT !.retries = @ + 1,
                          !.currentPrompt =
                            BuildCorrectionPrompt(c.prompt, response,
                                                  validation.errors)])

\* the inference call of the invocation resolves with `response`
InferenceResolves(response, throws) ==
  /\ call.fn = "executeWithCorrection"
  /\ call.pc = "inferring"
  /\ \E validation \in {ValidateResponse(response, NumberArraySchema)} :
       call' = AfterInference(
                 [call EXCEPT !.history =
                    Append(@, AttemptRecord(response, validation, call))],
                 response, validation, throws)
  /\ UNCHANGED <<ssrVars, hookVars, managerVars, limiterVars>>

\* the inference call of the invocation rejects: the rejection propagates
InferenceRejects(error) ==
  /\ call.fn = "executeWithCorrection"
  /\ call.pc = "inferring"
  /\ call' = [call EXCEPT !.pc = "rejected", !.results = @ + 1,
                          !.error = error]
  /\ UNCHANGED <<ssrVars, hookVars, managerVars, limiterVars>>

\* the pending inference call resolves or rejects
InferenceSettles ==
  \/ \E response \in Responses, throws \in BOOLEAN :
       InferenceResolves(response, throws)
  \/ \E error \in InferenceErrors : InferenceRejects(error)

NextCorrectionLoop ==
  \/ \E prompt \in Prompts, maxRetries \in RetryLimits :
       executeWithCorrection(prompt, maxRetries)
  \/ \E response \in Responses, throws \in BOOLEAN :
       InferenceResolves(response, throws)
  \/ \E error \in InferenceErrors : InferenceRejects(error)

\* every promise that `await inference(currentPrompt)` waits for settles
SpecCorrectionLoop ==
  InitCalls /\ [][NextCorrectionLoop]_vars /\ WF_vars(InferenceSettles)

\* ------------------------------------------------------------------------
\* hooks/ssrHooks.ts: useSSRSemanticState
\* ------------------------------------------------------------------------

\* useIsServer: the effect after the first client render
Hydrate ==
  /\ isServer
  /\ isServer' = FALSE
  /\ UNCHANGED <<hookVars, managerVars, call, limiterVars, ssrState, loading,
                 ssrError, ssrControllerRef, ssrAborted, ssrDispatches,
                 ssrNextId, ssrWrites>>

\* `abortControllerRef.current?.signal.aborted`, read when an invocation
\* resumes: the signal of the controller the ref holds at that moment
CurrentSignalAborted == ssrControllerRef \in ssrAborted

\* dispatch of useSSRSemanticState, from the return of executeWithCorrection
\* (its locals in c) through the finally block
SSRComplete(d, c) ==
  /\ IF CurrentSignalAborted
     THEN UNCHANGED <<ssrState, ssrError, ssrWrites, loading>>
     ELSE /\ loading' = FALSE
          /\ IF c.result.success /\ c.result.data # Null
             THEN /\ ssrState' = c.result.data
                  /\ ssrWrites' = Append(ssrWrites,
                                         [by |-> d, value |-> c.result.data])
                  /\ UNCHANGED ssrError
             ELSE /\ ssrError' = "Failed to generate valid state"
                  /\ UNCHANGED <<ssrState, ssrWrites>>
  /\ ssrDispatches' =
       [ssrDispatches EXCEPT
          ![d] = [@ EXCEPT !.pc = "done", !.run = c,
                           !.outcome = IF c.result.success THEN "success"
                                       ELSE "failure",
                           !.superseded = ssrControllerRef # d]]

\* dispatch(intent) of useSSRSemanticState, up to its first await; the
\* callback is the one of the latest render
ssrDispatch(intent) ==
  /\ ssrNextId <= MaxDispatches
  /\ ssrNextId' = ssrNextId + 1
  /\ IF isServer
     THEN /\ ssrDispatches' =
               [ssrDispatches EXCEPT
                  ![ssrNextId] = [@ EXCEPT !.pc = "done", !.intent = intent,
                                           !.outcome = "server"]]
          /\ UNCHANGED <<ssrState, loading, ssrError, ssrControllerRef,
                         ssrAborted, ssrWrites>>
     ELSE /\ ssrAborted' = IF ssrControllerRef # 0
                           THEN ssrAborted \cup {ssrControllerRef}
                           ELSE ssrAborted
          /\ ssrControllerRef' = ssrNextId
          /\ loading' = TRUE
          /\ ssrError' = ""
          /\ ssrDispatches' =
               [ssrDispatches EXCEPT
                  ![ssrNextId] =
                     [@ EXCEPT
                        !.pc = "inferring", !.intent = intent,
                        !.run = LoopHead(
                                  [fn |-> "executeWithCorrection",
                                   prompt |-> BuildPrompt(ssrState, intent),
                                   maxRetries |-> config.maxRetries,
                                   pc |-> "entered", attempts |-> 0,
                                   currentPrompt |->
                                     BuildPrompt(ssrState, intent),
                                   history |-> <<>>, result |-> NoResult,
                                   error |-> "", calls |-> 0, retries |-> 0,
                                   results |-> 0])]]
          /\ UNCHANGED <<ssrState, ssrWrites>>
  /\ UNCHANGED <<hookVars, managerVars, call, limiterVars, isServer>>

\* the inference call of invocation d resolves with `response`
ssrInferenceResolve(d, response) ==
  /\ ssrDispatches[d].pc = "inferring"
  /\ \E validation \in {ValidateResponse(response, config.schema)} :
     \E c \in {AfterInference(
                 [ssrDispatches[d].run EXCEPT !.history =
                    Append(@, AttemptRecord(response, validation,
                                            ssrDispatches[d].run))],
                 response, validation, FALSE)} :
       IF c.pc = "inferring"
       THEN /\ ssrDispatches' = [ssrDispatches EXCEPT ![d].run = c]
            /\ UNCHANGED <<ssrState, loading, ssrError, ssrWrites>>
       ELSE SSRComplete(d, c)
  /\ UNCHANGED <<hookVars, managerVars, call, limiterVars, isServer,
                 ssrControllerRef, ssrAborted, ssrNextId>>

\* the inference call of invocation d rejects: the catch block (the error is
\* not an AbortError, the signal is never handed to the provider) and the
\* finally block
ssrInferenceReject(d, error) ==
  /\ ssrDispatches[d].pc = "inferring"
  /\ ssrError' = error
  /\ loading' = IF CurrentSignalAborted THEN loading ELSE FALSE
  /\ ssrDispatches' =
       [ssrDispatches EXCEPT
          ![d] = [@ EXCEPT !.pc = "done", !.outcome = "rejected",
                           !.superseded = ssrControllerRef # d]]
  /\ UNCHANGED <<hookVars, managerVars, call, limiterVars, isServer, ssrState,
                 ssrControllerRef, ssrAborted, ssrNextId, ssrWrites>>

\* the cleanup effect on unmount: abortControllerRef.current?.abort()
ssrUnmount ==
  /\ ssrControllerRef # 0
  /\ ssrControllerRef \notin ssrAborted
  /\ ssrAborted' = ssrAborted \cup {ssrControllerRef}
  /\ UNCHANGED <<hookVars, managerVars, call, limiterVars, ssrState, loading,
                 ssrError, isServer, ssrControllerRef, ssrDispatches,
                 ssrNextId, ssrWrites>>

\* synapse.config.maxRetries of at least one attempt
SSRConfigs ==
  [maxRetries : 1..MaxRetriesBound, onGate : {FALSE},
   schema : {NumberArraySchema}]

InitSSR ==
  /\ HookInit(SSRConfigs, initialState)
  /\ ManagerInit({DefaultMaxSnapshots}, {FALSE})
  /\ call = NoCall
  /\ SSRInit
  /\ LimiterInit({ExampleLimit})

NextSSR ==
  \/ Hydrate
  \/ \E intent \in Intents : ssrDispatch(intent)
  \/ \E d \in DispatchIds, response \in Responses :
       ssrInferenceResolve(d, response)
  \/ \E d \in DispatchIds, error \in InferenceErrors :
       ssrInferenceReject(d, error)
  \/ ssrUnmount

SpecSSR == InitSSR /\ [][NextSSR]_vars

\* ------------------------------------------------------------------------
\* The hook over a to-do list: schema {items: array of {id, text, done}},
\* state {items: []}, synapse.config of DEFAULT_CONFIG
\* ------------------------------------------------------------------------
TodoIntent == "Add buy milk"

\* {items: []}
EmptyTodoState == Obj(<<>>)

TodoConfigs ==
  [maxRetries : {DefaultMaxRetries}, onGate : BOOLEAN,
   schema : {TodoListSchema}]

InitTodos ==
  /\ HookInit(TodoConfigs, EmptyTodoState)
  /\ ManagerInit({DefaultMaxSnapshots}, {FALSE})
  /\ call = NoCall
  /\ SSRInit
  /\ LimiterInit({ExampleLimit})

NextTodos ==
  \/ Dispatch(TodoIntent)
  \/ \E d \in DispatchIds, response \in TodoResponses, throws \in BOOLEAN :
       InferenceResolve(d, response, throws)
  \/ \E d \in DispatchIds, error \in InferenceErrors : InferenceReject(d, error)
  \/ \E d \in DispatchIds, confirmed \in BOOLEAN, throws \in BOOLEAN :
       GateResolve(d, confirmed, throws)
  \/ \E d \in DispatchIds : GateReject(d)
  \/ confirmChange
  \/ rejectChange
  \/ \E d \in DispatchIds, throws \in BOOLEAN : Resume(d, throws)
  \/ reset
  \/ Rerender

SpecTodos == InitTodos /\ [][NextTodos]_vars

\* ------------------------------------------------------------------------
\* Properties
\* ------------------------------------------------------------------------
history == stateContext.history

\* the AuditEntries a step appends
NewEntries == {i \in 1..Len(history') : i > Len(history)}

\* the setState calls a step makes
NewCommits == {i \in 1..Len(commits') : i > Len(commits)}

\* dispatch d ends in this step
Ends(d) == dispatches[d].pc # "done" /\ dispatches'[d].pc = "done"

\* C1: a dispatch that a newer dispatch has superseded never calls setState,
\* so a stale response never overwrites the state.
C1_SupersededNeverCommits ==
  \A i \in 1..Len(commits) : ~commits[i].stale

\* C2: no lifecycle transition is applied and no AuditEntry is appended on
\* behalf of a dispatch whose cancellation token is aborted.
C2_SupersededNeverTransitions ==
  \A i \in 1..Len(auditBy) : ~auditBy[i].stale

\* C3: the committed state is the initial state or the data of a successful
\* schema validation; every setState call carries such data.
C3_CommittedIsValidated ==
  /\ state = initialState \/ state \in validated
  /\ \A i \in 1..Len(commits) : commits[i].value \in validated

\* a commit of a validated value has replaced the initial state
C3_Witness ==
  /\ state # initialState
  /\ Len(commits) > 0
  /\ state \in validated

\* C4: an invocation of executeWithCorrection calls the inference capability
\* at most maxRetries times and returns at most maxRetries AttemptRecords.
C4_AtMostMaxRetries ==
  \A d \in DispatchIds :
    /\ dispatches[d].calls <= config.maxRetries
    /\ Len(dispatches[d].history) <= config.maxRetries
    /\ dispatches[d].returned.records <= config.maxRetries

\* every response was invalid and the ceiling of two or more calls is reached
C4_Witness ==
  \E d \in DispatchIds :
    /\ config.maxRetries >= 2
    /\ dispatches[d].returned.done
    /\ ~dispatches[d].returned.success
    /\ dispatches[d].calls = config.maxRetries
    /\ dispatches[d].returned.records = config.maxRetries

\* C5: executeWithCorrection returns success with the validated data at the
\* first response that validates, whatever failed before, and makes no
\* inference call and no onRetry call after it.
C5_SuccessAtFirstValid ==
  \A d \in DispatchIds :
    LET rec == dispatches[d]
        ret == rec.returned
    IN /\ \A i \in 1..Len(rec.history) :
            ValidateResponse(rec.history[i].response, config.schema).success
              => /\ i = Len(rec.history)
                 /\ ret.done /\ ret.success
       /\ ret.done /\ ret.records > 0 =>
            /\ ret.success =
                 ValidateResponse(ret.response, config.schema).success
            /\ ret.data = ValidateResponse(ret.response, config.schema).data
       /\ ret.done /\ ret.success =>
            /\ rec.pc # "inferring"
            /\ rec.calls = ret.attempts
            /\ ret.records = ret.attempts
            /\ rec.retries = ret.attempts - 1

\* a success that came after an invalid first response
C5_Witness ==
  \E d \in DispatchIds :
    /\ dispatches[d].returned.done
    /\ dispatches[d].returned.success
    /\ dispatches[d].returned.attempts >= 2
    /\ dispatches[d].retries >= 1

\* C6: a dispatch all of whose responses fail validation makes exactly
\* maxRetries inference calls, enters REJECTED with an error recorded, leaves
\* the committed state alone and ends.
C6_ExhaustionRejects ==
  [][\A d \in DispatchIds :
       Ends(d) /\ dispatches'[d].outcome = "exhausted"
         /\ dispatches'[d].calls >= 1 =>
         /\ dispatches'[d].calls = config.maxRetries
         /\ \E i \in NewEntries : history'[i].to = "REJECTED"
         /\ stateContext'.error # ""
         /\ state' = state]_vars

\* C7: when the inference promise of a dispatch rejects, no further inference
\* call is made, the ERROR transition into REJECTED is taken, the cause is
\* stored as the last error and the committed state is unchanged.
C7_InferenceErrorRejects ==
  [][\A d \in DispatchIds :
       Ends(d) /\ dispatches'[d].outcome = "inference_error" =>
         /\ dispatches'[d].calls = dispatches[d].calls
         /\ \E i \in NewEntries :
              history'[i].event = "ERROR" /\ history'[i].to = "REJECTED"
         /\ stateContext'.error \in InferenceErrors
         /\ state' = state]_vars

\* C8: the promise of dispatch never rejects; retry exhaustion, an inference
\* rejection and an exception of the gate or onChange callback all end in the
\* REJECTED lifecycle state with an error attached.
C8_FailuresSurfaceAsRejected ==
  [][\A d \in DispatchIds :
       /\ dispatches'[d].promise # "rejected"
       /\ Ends(d) /\ dispatches'[d].calls >= 1
            /\ dispatches'[d].outcome \in
                 {"exhausted", "inference_error", "callback_error"} =>
            /\ dispatches'[d].promise = "resolved"
            /\ machineState' = "REJECTED"
            /\ stateContext'.error # ""]_vars

\* C9: a validated state is committed without confirmation only when it is
\* confident and not destructive; otherwise NEEDS_CONFIRMATION is taken and
\* the committed state stays as it is until the gate callback returns true or
\* confirmChange() is signalled.
C9_GatedUnlessConfident ==
  [][/\ \A i \in NewCommits :
          /\ commits'[i].how = "auto" => ~commits'[i].needsGating
          /\ commits'[i].needsGating => commits'[i].how \in {"gate", "manual"}
     /\ \A d \in DispatchIds :
          dispatches[d].pc = "inferring"
            /\ dispatches'[d].pc \in {"gate", "confirm"} =>
            /\ \E i \in NewEntries : history'[i].event = "NEEDS_CONFIRMATION"
            /\ state' = state]_vars

\* C10: when a gated change is rejected, the committed state is unchanged,
\* onChange is not called, USER_REJECTED into REJECTED is taken and the
\* pending proposed value is cleared.
C10_RejectedGateDiscards ==
  [][\A d \in DispatchIds :
       Ends(d) /\ dispatches'[d].outcome = "rejected" =>
         /\ state' = state
         /\ commits' = commits
         /\ \E i \in NewEntries :
              history'[i].event = "USER_REJECTED" /\ history'[i].to = "REJECTED"
         /\ pendingState' = Null]_vars

\* C11: a dispatch that is not superseded reaches SETTLED or REJECTED and is
\* concluded by RESET, so that the lifecycle is IDLE when its promise has
\* resolved, on the success, user-rejected, retry-exhausted and
\* inference-error paths alike.
C11_DispatchConcludedByReset ==
  [][\A d \in DispatchIds :
       Ends(d) /\ d \notin aborted /\ dispatches'[d].calls >= 1
         /\ dispatches'[d].outcome \in
              {"settled", "rejected", "exhausted", "inference_error"} =>
         /\ machineState' = "IDLE"
         /\ \E i \in NewEntries :
              /\ history'[i].event = "RESET"
              /\ history'[i].from \in {"SETTLED", "REJECTED"}]_vars

\* dispatch d took NEEDS_CONFIRMATION while its AbortSignal was not aborted
ReachedGateBeforeAbort(d) ==
  \E i \in 1..Len(auditBy) :
    /\ auditBy[i].by = d /\ ~auditBy[i].stale
    /\ history[i].event = "NEEDS_CONFIRMATION"

\* C13: when a new dispatch has started while a dispatch was suspended at
\* its gate, the later resolution of that gate (the gate callback, or
\* confirmChange() / rejectChange()) commits nothing and applies no
\* lifecycle transition.
C13_SupersededGateIgnored ==
  [][\A d \in DispatchIds :
       (/\ ReachedGateBeforeAbort(d) /\ d \in aborted
        /\ dispatches[d].pc \in {"gate", "resumed"} /\ Ends(d)) =>
         /\ state' = state
         /\ commits' = commits
         /\ history' = history]_vars

\* C12: every dispatch takes a RollbackManager snapshot of the committed
\* state, labelled with the intent, before its first lifecycle transition.
C12_DispatchTakesSnapshot ==
  [][nextId' # nextId =>
       /\ Len(snapshots') >= 1
       /\ snapshots'[Len(snapshots')].data = state
       /\ snapshots'[Len(snapshots')].intent = stateContext'.currentIntent]_vars

\* C17: the RollbackManager never retains more than maxSnapshots snapshots,
\* and a snapshot() call leaves exactly the most recent maxSnapshots of the
\* old history followed by the new snapshot, in insertion order.
C17_AtMostMaxSnapshots ==
  [][/\ Len(snapshots') <= maxSnapshots
     /\ operation'.name = "snapshot" =>
          LET all == Append(snapshots,
                            StateSnapshot(operation'.id, operation'.data,
                                          operation'.intent))
              kept == Min2(maxSnapshots, Len(snapshots) + 1)
          IN /\ Len(snapshots') = kept
             /\ \A k \in 1..kept :
                  snapshots'[k] = all[Len(all) - kept + k]]_vars

\* a snapshot() call that evicted the oldest snapshot of a full history
C17_Witness ==
  /\ operation.name = "snapshot"
  /\ operation.removed >= 1
  /\ maxSnapshots >= 2
  /\ Len(snapshots) = maxSnapshots

\* C18: rollbackTo(id) returns null and leaves the history alone when no
\* retained snapshot has that id; otherwise it truncates the history so that
\* a snapshot with that id is the newest, keeping everything before it, and
\* returns that snapshot's data.
C18_RollbackToTruncates ==
  [][operation'.name = "rollbackTo" =>
       IF \A i \in 1..Len(snapshots) : snapshots[i].id # operation'.id
       THEN /\ operation'.result = Null
            /\ snapshots' = snapshots
       ELSE /\ Len(snapshots') >= 1
            /\ snapshots' = SubSeq(snapshots, 1, Len(snapshots'))
            /\ snapshots'[Len(snapshots')].id = operation'.id
            /\ operation'.result = snapshots'[Len(snapshots')].data]_vars

\* a rollbackTo() that discarded a newer snapshot and kept an older one
C18_Witness ==
  /\ operation.name = "rollbackTo"
  /\ operation.removed >= 1
  /\ Len(snapshots) >= 2
  /\ snapshots[Len(snapshots)].id = operation.id

\* C19: rollbackSteps(n), n >= 0, returns the data of the snapshot n steps
\* back from the newest, clamped to the oldest, and truncates the history to
\* end at that snapshot, so that getLastGoodState() then returns the same
\* data; on an empty history it returns null.
C19_RollbackStepsTruncates ==
  [][operation'.name = "rollbackSteps" =>
       IF Len(snapshots) = 0
       THEN /\ operation'.result = Null
            /\ snapshots' = snapshots
       ELSE LET target == Max2(1, Len(snapshots) - operation'.steps)
            IN /\ operation'.result = snapshots[target].data
               /\ snapshots' = SubSeq(snapshots, 1, target)
               /\ LastGoodState(snapshots') = operation'.result]_vars

\* C20: every autoRollback(currentState, reason) calls the registered
\* onRollback callback exactly once, with (currentState, lastGoodState,
\* reason), and returns lastGoodState (null on an empty history).
C20_AutoRollbackNotifies ==
  [][operation'.name = "autoRollback" /\ onRollback =>
       /\ operation'.callbacks =
            <<[from |-> operation'.data, to |-> LastGoodState(snapshots),
               reason |-> operation'.reason]>>
       /\ operation'.result = LastGoodState(snapshots)]_vars

\* the transition table of the specification: (state, event, next state)
SpecifiedTransitions ==
  {<<"IDLE", "DISPATCH", "OPTIMISTIC">>,
   <<"IDLE", "DISPATCH_NO_OPTIMISTIC", "GENERATING">>,
   <<"OPTIMISTIC", "START_INFERENCE", "GENERATING">>,
   <<"GENERATING", "RESPONSE_RECEIVED", "VALIDATING">>,
   <<"GENERATING", "ERROR", "REJECTED">>,
   <<"VALIDATING", "VALID", "GATING">>,
   <<"VALIDATING", "INVALID", "CORRECTING">>,
   <<"CORRECTING", "RETRY", "GENERATING">>,
   <<"CORRECTING", "MAX_RETRIES", "REJECTED">>,
   <<"GATING", "CONFIDENT", "SETTLED">>,
   <<"GATING", "NEEDS_CONFIRMATION", "GATING">>,
   <<"GATING", "USER_CONFIRMED", "SETTLED">>,
   <<"GATING", "USER_REJECTED", "REJECTED">>,
   <<"SETTLED", "RESET", "IDLE">>,
   <<"REJECTED", "RESET", "IDLE">>}

\* C14: getNextState(from, event) returns the target the 15-row table lists
\* for the pair and null for every other pair; no pair has two targets.
C14_GetNextStateIsTheTable ==
  /\ Cardinality(SpecifiedTransitions) = 15
  /\ \A r1, r2 \in SpecifiedTransitions :
       r1[1] = r2[1] /\ r1[2] = r2[2] => r1[3] = r2[3]
  /\ call.fn = "getNextState" =>
       /\ \A r \in SpecifiedTransitions :
            r[1] = call.from /\ r[2] = call.event => call.result = r[3]
       /\ (\A r \in SpecifiedTransitions :
             r[1] # call.from \/ r[2] # call.event) => call.result = NoState

\* getNextState(REJECTED, RESET) has returned IDLE
C14_Witness ==
  /\ call.fn = "getNextState"
  /\ call.from = "REJECTED" /\ call.event = "RESET"
  /\ call.result = "IDLE"

\* C15: each accepted transition appends exactly one AuditEntry whose from
\* and to are the lifecycle state before and after it; an event without a
\* row changes neither the lifecycle state nor the history; the history is
\* only ever appended to.
C15_OneAuditEntryPerTransition ==
  [][/\ Len(history') >= Len(history)
     /\ SubSeq(history', 1, Len(history)) = history
     /\ \A i \in NewEntries :
          /\ history'[i].from =
               IF i = Len(history) + 1 THEN machineState
               ELSE history'[i - 1].to
          /\ <<history'[i].from, history'[i].event, history'[i].to>>
               \in SpecifiedTransitions
     /\ machineState' =
          IF NewEntries = {} THEN machineState
          ELSE history'[Len(history')].to]_vars

\* the history holds the GATING to GATING entry of NEEDS_CONFIRMATION
C15_Witness ==
  \E i \in 1..Len(history) :
    /\ history[i].from = "GATING" /\ history[i].to = "GATING"
    /\ history[i].event = "NEEDS_CONFIRMATION"

\* executeWithCorrection returns to the only dispatch made so far, which was
\* issued with intent "Add buy milk" over the state {items: []}, after a
\* first response without `done` and a second, valid response
SecondResponseArrives(d) ==
  /\ nextId = 2 /\ d = 1 /\ d \notin aborted
  /\ config.maxRetries = DefaultMaxRetries /\ config.schema = TodoListSchema
  /\ dispatches[d].pc = "inferring"
  /\ dispatches[d].intent = TodoIntent
  /\ dispatches[d].state = EmptyTodoState
  /\ Len(dispatches[d].history) = 1
  /\ dispatches[d].history[1].response = ResponseWithoutDone
  /\ Len(dispatches[d].history[1].errors) > 0
  /\ dispatches'[d].returned.done
  /\ dispatches'[d].returned.response = ResponseWithDone

\* C16: under the default configuration, with the to-do list schema, the
\* state {items: []} and the intent "Add buy milk", a first response without
\* `done` and a second valid response make the dispatch end SETTLED with an
\* attempt count of 2 and the second response as the committed state.
C16_EndToEndSettles ==
  [][\A d \in DispatchIds :
       SecondResponseArrives(d)
         => /\ dispatches'[d].returned.attempts = 2
            /\ dispatches'[d].outcome = "settled"
            /\ \E i \in NewEntries : history'[i].to = "SETTLED"
            /\ state' = JsonParse(ResponseWithDone).value]_vars

\* C21: snapshot data is isolated from callers in both directions: changing
\* in place the object passed to snapshot(), or an object returned by
\* getLastGoodState, rollbackTo, rollbackSteps or getHistory, changes neither
\* the stored snapshots nor what later calls return.
C21_SnapshotsIsolated ==
  [][operation'.name = "mutate"
       => /\ snapshots' = snapshots
          /\ LastGoodState(snapshots') = LastGoodState(snapshots)
          /\ held'.ref \notin {snapshotRefs'[i] : i \in 1..Len(snapshotRefs')}]_vars

\* the caller has changed the object it passed to snapshot(), and the
\* manager holds a snapshot with other contents
C21_Witness ==
  /\ operation.name = "mutate" /\ held.from = "snapshot"
  /\ Len(snapshots) >= 1
  /\ LastGoodState(snapshots) # held.value

\* the response has no `{`/`[` or no `}`/`]`
NoBoundaries(content) ==
  \/ content.type # "string"
  \/ \A i \in 1..Len(content.text) : content.text[i] \notin {"{", "["}
  \/ \A i \in 1..Len(content.text) : content.text[i] \notin {"}", "]"}

\* C22: validateResponse never throws, whatever the response is (valid or
\* malformed JSON, text without boundaries, the empty string, a value that
\* is not a string): a failure has data null and at least one error, and a
\* response without boundaries has the single error "No JSON found in
\* response".
C22_ValidateResponseNeverThrows ==
  call.fn = "validateResponse" =>
    /\ ~call.threw
    /\ ~call.result.success =>
         call.result.data = Null /\ Len(call.result.errors) >= 1
    /\ NoBoundaries(call.response) =>
         /\ ~call.result.success
         /\ Len(call.result.errors) = 1
         /\ call.result.errors[1].message = "No JSON found in response"

\* C23: isDestructiveChange({items:[1,2,3]}, {items:[]}) is true and
\* isDestructiveChange({items:[1]}, {items:[1,2,3]}) is false: emptying a
\* non-empty array held in a field of the state object is destructive,
\* growing it is not.
C23_EmptyingItemsIsDestructive ==
  call.fn = "isDestructiveChange"
    /\ call.previousState.kind = "object" /\ call.newState.kind = "object"
    => /\ Len(call.previousState.items) > 0 /\ Len(call.newState.items) = 0
            => call.result
       /\ Len(call.previousState.items) < Len(call.newState.items)
            => ~call.result

\* the denominators of confidences are multiples of 1000 * IntentClarityLen
ConfidenceScale == 1000 * IntentClarityLen

\* a <= b for two confidence fractions
ConfidenceLeq(a, b) ==
  a.num * (b.den \div ConfidenceScale) <= b.num * (a.den \div ConfidenceScale)

\* the difference ratio 1 - sameChars/maxLen of (p1, n1) is at least that
\* of (p2, n2)
DiffRatioGeq(p1, n1, p2, n2) ==
  SameChars(Stringify(p1), Stringify(n1))
      * Max2(Len(Stringify(p2)), Len(Stringify(n2)))
    <= SameChars(Stringify(p2), Stringify(n2))
         * Max2(Len(Stringify(p1)), Len(Stringify(n1)))

\* C24: calculateConfidence returns a value in [0, 1] for any
\* modelConfidence, intent and pair of states, and for a fixed intent and
\* modelConfidence a pair of states with a larger difference ratio never
\* gets a larger score.
C24_ConfidenceInRangeAndMonotone ==
  call.fn = "calculateConfidence" =>
    /\ 0 <= call.result.num /\ call.result.num <= call.result.den
    /\ \A p \in StateValues, n \in StateValues :
         DiffRatioGeq(p, n, call.previousState, call.newState)
           => ConfidenceLeq(CalculateConfidenceWith(p, n, call.intent,
                                                    call.modelConfidence),
                            call.result)

\* a call whose score lies strictly inside the range while another pair of
\* states differs more and scores strictly less
C24_Witness ==
  /\ call.fn = "calculateConfidence"
  /\ 0 < call.result.num /\ call.result.num < call.result.den
  /\ \E p \in StateValues, n \in StateValues :
       /\ ~DiffRatioGeq(call.previousState, call.newState, p, n)
       /\ ~ConfidenceLeq(call.result,
                         CalculateConfidenceWith(p, n, call.intent,
                                                 call.modelConfidence))

\* C25: on each correction retry of a dispatch the machine enters CORRECTING
\* and the RETRY event is accepted (CORRECTING to GENERATING), so each retry
\* leaves a CORRECTING entry and a RETRY transition in the audit history.
C25_RetryIsAudited ==
  [][\A d \in DispatchIds :
       dispatches'[d].retries > dispatches[d].retries /\ d \notin aborted
         => \E i \in NewEntries, j \in NewEntries :
              /\ history'[i].to = "CORRECTING"
              /\ history'[j].event = "RETRY"
              /\ history'[j].from = "CORRECTING"
              /\ history'[j].to = "GENERATING"]_vars

\* C26: a function wrapped by withRateLimit({maxRequests: N, windowMs}) runs
\* for each of the first N calls inside one window and is rejected only for
\* the calls beyond the N-th; consume() reports blocked = true exactly for
\* the requests that got no slot.
C26_FirstNCallsRun ==
  limited.fn = "call" =>
    /\ limited.nth <= limiterConfig.maxRequests => limited.executed
    /\ limited.info.blocked = limited.wasBlocked

\* C27: the prompt of a dispatch, and the previous state its confidence and
\* destructiveness are scored against, are the state committed at the
\* moment dispatch() is invoked, also when it is invoked through the same
\* function reference after an earlier dispatch has committed.
C27_DispatchReadsCommittedState ==
  [][\A d \in DispatchIds :
       nextId = d /\ nextId' = d + 1 /\ dispatches'[d].pc = "inferring"
         => /\ dispatches'[d].prompt.currentState = state
            /\ dispatches'[d].state = state]_vars

\* the audit entries of h that record a transition into SETTLED
SettledEntries(h) == {i \in 1..Len(h) : h[i].to = "SETTLED"}

\* C28: every commit of a new state coincides with exactly one accepted
\* transition into SETTLED, so the number of commits equals the number of
\* audit entries with to = SETTLED (as long as no callback has thrown). A
\* dispatch that starts outside IDLE, e.g. in REJECTED before a reset, has no
\* accepted transition into SETTLED, so it must not commit.
C28_CommitsAreSettledEntries ==
  [][(\A d \in DispatchIds : dispatches'[d].outcome # "callback_error")
       => /\ Len(commits') = Cardinality(SettledEntries(history'))
          /\ \A i \in NewCommits :
               Cardinality(SettledEntries(history') \cap NewEntries) = 1]_vars

\* executeWithCorrection returns to dispatch d in this step
Returns(d) == ~dispatches[d].returned.done /\ dispatches'[d].returned.done

C30_ResultHistoryIsComplete ==
  \A d \in DispatchIds :
    dispatches[d].returned.done =>
      /\ dispatches[d].returned.attempts = Len(dispatches[d].returned.history)
      /\ dispatches[d].returned.attempts = dispatches[d].calls
      /\ Len(dispatches[d].sent) = dispatches[d].calls
      /\ \A i \in 1..Len(dispatches[d].returned.history) :
           /\ dispatches[d].returned.history[i].prompt = dispatches[d].sent[i]
           /\ dispatches[d].returned.history[i].errors =
                ValidateResponse(dispatches[d].returned.history[i].response,
                                 config.schema).errors
           /\ dispatches[d].returned.success =>
                ((Len(dispatches[d].returned.history[i].errors) = 0)
                   <=> i = Len(dispatches[d].returned.history))
      /\ ~dispatches[d].returned.success =>
           /\ dispatches[d].returned.data = Null
           /\ Len(dispatches[d].returned.history) = config.maxRetries

\* executeWithCorrection has returned failure with two records, the second
\* for a correction prompt
C30_Witness ==
  \E d \in DispatchIds :
    /\ dispatches[d].returned.done /\ ~dispatches[d].returned.success
    /\ Len(dispatches[d].returned.history) = 2
    /\ dispatches[d].returned.history[2].prompt.kind = "correction"

\* C31: every prompt an executeWithCorrection invocation sends after its
\* first is the correction prompt built from the original (first) prompt,
\* the response of the attempt just before it and that response's errors:
\* it embeds the first prompt itself, never a correction prompt, and the
\* first 500 characters of the response at most, with the "..." mark
\* exactly when the response is longer than 500 characters.
C31_RetryPromptFromOriginal ==
  [][\A d \in DispatchIds :
       Len(dispatches'[d].sent) > Len(dispatches[d].sent)
         => /\ Len(dispatches'[d].sent) = Len(dispatches[d].sent) + 1
            /\ dispatches'[d].sent[1].kind = "mutation"
            /\ Len(dispatches[d].sent) = 0
                 => dispatches'[d].sent[1] = dispatches'[d].prompt
            /\ Len(dispatches[d].sent) >= 1
                 => /\ dispatches'[d].sent[Len(dispatches'[d].sent)].kind
                         = "correction"
                    /\ dispatches'[d].sent[Len(dispatches'[d].sent)].original
                         = dispatches'[d].sent[1]
                    /\ Len(dispatches'[d].sent[Len(dispatches'[d].sent)].previous)
                         <= CorrectionSliceLen
                    /\ dispatches'[d].sent[Len(dispatches'[d].sent)].previous
                         = SubSeq(dispatches'[d].history[Len(dispatches[d].sent)].response,
                                  1, Len(dispatches'[d].sent[Len(dispatches'[d].sent)].previous))
                    /\ Len(dispatches'[d].sent[Len(dispatches'[d].sent)].previous)
                         = Min2(CorrectionSliceLen,
                                Len(dispatches'[d].history[Len(dispatches[d].sent)].response))
                    /\ dispatches'[d].sent[Len(dispatches'[d].sent)].ellipsis
                         <=> Len(dispatches'[d].history[Len(dispatches[d].sent)].response)
                               > CorrectionSliceLen
                    /\ dispatches'[d].sent[Len(dispatches'[d].sent)].errorDetails
                         = FormatErrorsForCorrection(
                             dispatches'[d].history[Len(dispatches[d].sent)].errors)]_vars

\* a second correction prompt has been sent, for a response of more than 500
\* characters that followed one of exactly 500
C31_Witness ==
  \E d \in DispatchIds :
    /\ Len(dispatches[d].sent) = 3
    /\ dispatches[d].pc = "inferring"
    /\ Len(dispatches[d].history[1].response) = CorrectionSliceLen
    /\ ~dispatches[d].sent[2].ellipsis
    /\ Len(dispatches[d].history[2].response) > CorrectionSliceLen
    /\ dispatches[d].sent[3].ellipsis

\* the executeWithCorrection invocation held in `call`, if there is one
Invoked == call.fn = "executeWithCorrection"

\* C32: if every inference call eventually resolves or rejects, each
\* executeWithCorrection invocation eventually ends, with exactly one of a
\* returned result (success or failure) and a propagated rejection; it never
\* produces a second outcome, and the loop never makes more than maxRetries
\* inference calls.
C32_InvocationEndsOnce ==
  /\ Invoked ~> (Invoked /\ call.pc \in {"returned", "rejected"}
                   /\ call.results = 1)
  /\ [](Invoked =>
          /\ call.results <= 1
          /\ call.results = 1 <=> call.pc \in {"returned", "rejected"}
          /\ call.pc = "returned" <=> call.result # NoResult
          /\ call.pc = "rejected" <=> call.error # ""
          /\ call.calls <= Max2(call.maxRetries, 0)
          /\ call.attempts = call.calls)
  /\ [][Invoked /\ call.results = 1 => call' = call]_vars

\* the loop has run all its maxRetries = 2 iterations and returned failure
C32_Witness ==
  /\ Invoked
  /\ call.maxRetries = MaxRetriesBound
  /\ call.calls = call.maxRetries
  /\ call.pc = "returned"
  /\ ~call.result.success

\* C33: isDestructiveChange returns true exactly when (a) the serialized
\* previous state has more than 50 characters and the serialized new state
\* has fewer than 30% of that, or (b) both are arrays, the previous one
\* non-empty and the new one empty; so it is false for a previous state of
\* exactly 50 characters and for a new size of exactly 30%, unless (b).
C33_DestructiveExactly ==
  call.fn = "isDestructiveChange" =>
    /\ call.result <=>
         \/ /\ Len(Stringify(call.previousState)) > 50
            /\ 10 * Len(Stringify(call.newState))
                 < 3 * Len(Stringify(call.previousState))
         \/ /\ call.previousState.kind = "array"
            /\ call.newState.kind = "array"
            /\ call.previousState.items # <<>>
            /\ call.newState.items = <<>>
    /\ (Len(Stringify(call.previousState)) = 50
          /\ call.previousState.kind # "array") => ~call.result
    /\ (10 * Len(Stringify(call.newState))
          = 3 * Len(Stringify(call.previousState))
          /\ call.newState.items # <<>>) => ~call.result

\* a previous state of 70 characters and a new one of 21, not destructive
C33_Witness ==
  /\ call.fn = "isDestructiveChange"
  /\ Len(Stringify(call.previousState)) = 70
  /\ Len(Stringify(call.newState)) = 21
  /\ ~call.result

\* a previous state of 50 characters and a new one of 12, not destructive
C33_WitnessFifty ==
  /\ call.fn = "isDestructiveChange"
  /\ Len(Stringify(call.previousState)) = 50
  /\ Len(Stringify(call.newState)) = 12
  /\ ~call.result

\* C34: for every response text that contains a fenced code block,
\* extractJson returns exactly the trimmed content of the first fenced
\* block, whatever stands outside it; only a text without a fenced block is
\* cut from its first opening to its last closing bracket or brace.
C34_FencedContentExactly ==
  call.fn = "extractJson" =>
    /\ CodeBlockMatch(Trim(call.response)).hit
         => call.result = Trim(CodeBlockMatch(Trim(call.response)).group)
    /\ ~CodeBlockMatch(Trim(call.response)).hit
         => call.result = JsonBoundaries(Trim(call.response))

\* what does hold: the first block's trimmed content is cut to its brackets
C34_FencedContentCut ==
  call.fn = "extractJson" /\ CodeBlockMatch(Trim(call.response)).hit
    => call.result
         = JsonBoundaries(Trim(CodeBlockMatch(Trim(call.response)).group))

\* C35: with maxSnapshots >= 1, once snapshot() has been called the
\* snapshot list stays non-empty under every later snapshot, rollbackTo,
\* rollbackSteps(n >= 0) and autoRollback call; only clear() empties it, and
\* on the emptied list getLastGoodState() returns null and
\* availableRollbacks is 0.
C35_OnlyClearEmpties ==
  /\ [][/\ maxSnapshots >= 1 /\ operation'.name = "snapshot"
             => snapshots' # <<>>
        /\ maxSnapshots >= 1 /\ snapshots # <<>>
             => (snapshots' = <<>> <=> operation'.name = "clear")
        /\ snapshots = <<>> /\ operation'.name = "getLastGoodState"
             => operation'.result = Null /\ snapshots' = <<>>
        /\ snapshots = <<>> /\ operation'.name = "availableRollbacks"
             => operation'.count = 0 /\ snapshots' = <<>>]_vars
  /\ [](operation.name = "clear" => snapshots = <<>>)

\* availableRollbacks is read on a list that a snapshot call had filled and
\* clear has emptied
C35_Witness ==
  /\ maxSnapshots >= 1
  /\ held.from = "snapshot"
  /\ snapshots = <<>>
  /\ operation.name = "availableRollbacks"
  /\ operation.count = 0

\* invocation d of the SSR dispatch ends in this step
SSREnds(d) == ssrDispatches[d].pc = "inferring" /\ ssrDispatches'[d].pc = "done"

\* C36: in useSSRSemanticState a second dispatch issued while the first is
\* awaiting inference cancels the first: the first's result is never
\* written to state and the first does not clear the loading flag, so
\* loading stays true until the second finishes, in whichever order the
\* two inference calls resolve.
C36_SecondDispatchCancelsFirst ==
  /\ [][\A d \in DispatchIds :
          SSREnds(d) /\ d \in ssrAborted
            => /\ ssrState' = ssrState
               /\ ssrWrites' = ssrWrites
               /\ loading' = loading]_vars
  /\ [](\A d \in DispatchIds :
          ssrDispatches[d].pc = "inferring" /\ d \notin ssrAborted
            => loading)

\* the weaker statement that holds: only the signal of the controller in
\* the ref is read, so an invocation is silenced when the latest dispatch
\* has been aborted (by unmount), not when it has been superseded
C36_SilencedByCurrentSignal ==
  [][\A d \in DispatchIds :
       SSREnds(d) /\ ssrControllerRef \in ssrAborted
         => /\ ssrState' = ssrState
            /\ ssrWrites' = ssrWrites
            /\ loading' = loading]_vars

\* dispatch d is suspended on its confirmation promise, or has been handed
\* the signal and not run on yet
AwaitsConfirmation(d) == dispatches[d].pc \in {"confirm", "resumed"}

\* C37: pendingConfirmation is true (pendingState is non-null) only while
\* the lifecycle is GATING and some dispatch is suspended waiting for
\* confirmChange or rejectChange; and whenever a dispatch is so suspended
\* the ref holds its resolver, so that confirmChange() or rejectChange()
\* resumes it and no dispatch promise stays pending for ever once a
\* confirmation signal is given.
C37_PendingOnlyWhileGated ==
  /\ pendingState # Null
       => /\ machineState = "GATING"
          /\ \E d \in DispatchIds : AwaitsConfirmation(d)
  /\ \A d \in DispatchIds :
       dispatches[d].pc = "confirm" => pendingResolverRef = d

\* the first half alone
C37_PendingImpliesGated ==
  pendingState # Null
    => /\ machineState = "GATING"
       /\ \E d \in DispatchIds : AwaitsConfirmation(d)

\* the second half alone
C37_SuspendedHoldsResolver ==
  \A d \in DispatchIds :
    dispatches[d].pc = "confirm" => pendingResolverRef = d

\* C38: the audit history is always a connected path of the transition
\* table that starts at IDLE: the first entry's from is IDLE, each entry's
\* from is the entry before's to, the last entry's to is the current
\* lifecycle state, and every entry is a row of the table.
C38_HistoryIsPathFromIdle ==
  /\ history = <<>> => machineState = "IDLE"
  /\ history # <<>>
       => /\ history[1].from = "IDLE"
          /\ history[Len(history)].to = machineState
  /\ \A i \in 2..Len(history) : history[i].from = history[i - 1].to
  /\ \A i \in 1..Len(history) :
       <<history[i].from, history[i].event, history[i].to>>
         \in SpecifiedTransitions

\* a dispatch has run through the lifecycle and back to IDLE, and a second
\* one has left IDLE again
C38_Witness ==
  /\ Len(history) >= 6
  /\ machineState = "GENERATING"
  /\ \E i \in 2..(Len(history) - 1) :
       history[i].event = "RESET" /\ history[i].to = "IDLE"

\* C39: with maxRetries <= 0 executeWithCorrection makes no inference call
\* and no onRetry call and returns failure with data null, attempts 0 and an
\* empty history; a dispatch under such a configuration never commits.
C39_NoAttemptsNoCommit ==
  config.maxRetries <= 0 =>
    /\ commits = <<>>
    /\ state = initialState
    /\ \A d \in DispatchIds :
         /\ dispatches[d].calls = 0
         /\ dispatches[d].retries = 0
         /\ dispatches[d].sent = <<>>
         /\ dispatches[d].pc \in {"new", "done"}
         /\ dispatches[d].pc = "done" /\ dispatches[d].outcome # "aborted"
              => /\ dispatches[d].returned.done
                 /\ ~dispatches[d].returned.success
                 /\ dispatches[d].returned.data = Null
                 /\ dispatches[d].returned.attempts = 0
                 /\ dispatches[d].returned.history = <<>>
                 /\ dispatches[d].outcome = "exhausted"

\* two dispatches have ended under maxRetries = -1
C39_Witness ==
  /\ config.maxRetries < 0
  /\ \A d \in DispatchIds :
       dispatches[d].pc = "done" /\ dispatches[d].returned.done

====
